---------------------------- MODULE Spec2Model ----------------------------
(***************************************************************************)
(* Moderation engine of the chat bot: the content pipeline                 *)
(* (handlers/message_handlers.py), profile screening and the join gate     *)
(* (handlers/member_handlers.py), with the text helpers                    *)
(* (utils/text_utils.py) and the caches (handlers/helpers.py,              *)
(* utils/helpers.py) they use.                                             *)
(*                                                                         *)
(* A text is a sequence of characters; a character is a one-element name   *)
(* ("a", "A", " ", "\n", or a code point name such as "U+0303").           *)
(***************************************************************************)
EXTENDS Integers, Sequences, FiniteSets, TLC

\* ------------------------------------------------------------------------
\* Configuration (config.py and the module-level settings of the handlers)
\* ------------------------------------------------------------------------
MAX_WARNINGS == 2
MUTE_DURATION_MINUTES == 30
CAPS_THRESHOLD == 8
MAX_IDENTICAL_MESSAGES_BEFORE_WARN == 3
MODERATE_ADMINS == FALSE
MODERATE_BOTS == FALSE
ZALGO_MIN_DIACRITICS == 4
\* ZALGO_RATIO_THRESHOLD = 0.5, kept as the fraction 1/2
ZALGO_RATIO_NUM == 1
ZALGO_RATIO_DEN == 2
SPAM_WINDOW_SECONDS == 60
MAX_HISTORY_USERS == 1000
BOT_MESSAGE_CACHE_SIZE == 20
USER_MESSAGE_CACHE_SIZE == 200
BIO_CHECK_COOLDOWN == 300
\* ADMIN_IDS: the global administrators that receive proposals
ADMIN_IDS == <<100>>

\* ------------------------------------------------------------------------
\* Bounds of the exploration
\* ------------------------------------------------------------------------
\* seconds that pass in one Tick, and the number of Ticks explored
TickStep == 30
MaxTicks == 3
\* events handled in one run of the content pipeline, and of a flood
MaxEvents == 3
MaxBurst == 6
\* platform calls that fail in one run
MaxFaults == 1

\* ------------------------------------------------------------------------
\* Characters
\* ------------------------------------------------------------------------
UpperChars == {"A", "X", "Y", "W"}
LowerChars == {"a", "x", "y", "w", "h", "i", "t", "m", "e", "z"}
DigitChars == {"1"}
\* str.split() separators
SpaceChars == {" ", "\n", "\t"}
\* combining marks: unicodedata.category in Mn, Mc, Me
MarkChars == {"U+0303"}
\* a precomposed letter, which NFD splits into base and mark
ComposedChars == {"U+00E3"}
PunctChars == {".", "/"}

\* str.lower() on one character
LowerOf(c) ==
    CASE c = "A" -> "a"
      [] c = "X" -> "x"
      [] c = "Y" -> "y"
      [] c = "W" -> "w"
      [] OTHER -> c

RECURSIVE MapLower(_)
MapLower(s) == IF s = << >> THEN << >> ELSE <<LowerOf(Head(s))>> \o MapLower(Tail(s))

\* str.split(): the maximal runs of non-space characters
RECURSIVE SplitWords(_, _)
SplitWords(s, cur) ==
    IF s = << >> THEN (IF cur = << >> THEN << >> ELSE <<cur>>)
    ELSE IF Head(s) \in SpaceChars
         THEN (IF cur = << >> THEN << >> ELSE <<cur>>) \o SplitWords(Tail(s), << >>)
         ELSE SplitWords(Tail(s), Append(cur, Head(s)))

\* " ".join(words)
RECURSIVE JoinWords(_)
JoinWords(ws) ==
    IF ws = << >> THEN << >>
    ELSE IF Len(ws) = 1 THEN Head(ws)
    ELSE Head(ws) \o <<" ">> \o JoinWords(Tail(ws))

\* a faulty variant of normalize_text: case is folded, whitespace runs are kept
normalize_text_keep_ws(text) == MapLower(text)

\* utils/text_utils.py normalize_text
normalize_text(text) ==
    IF text = << >> THEN << >> ELSE JoinWords(SplitWords(MapLower(text), << >>))

\* Python's `w in s` on strings
Contains(s, w) ==
    \E i \in 0..(Len(s) - Len(w)) : SubSeq(s, i + 1, i + Len(w)) = w

\* unicodedata.normalize('NFD', text)
RECURSIVE NFD(_)
NFD(s) ==
    IF s = << >> THEN << >>
    ELSE (IF Head(s) = "U+00E3" THEN <<"a", "U+0303">> ELSE <<Head(s)>>) \o NFD(Tail(s))

CountIn(s, S) == Cardinality({i \in 1..Len(s) : s[i] \in S})

\* a faulty variant of is_zalgo_text: exactly min_diacritics marks are not
\* enough
is_zalgo_text_strict(text, min_diacritics, ratio_num, ratio_den) ==
    LET n == NFD(text)
        diacritics_count == CountIn(n, MarkChars)
        base_chars_count == Len(n) - diacritics_count
    IN IF text = << >> THEN FALSE
       ELSE IF diacritics_count <= min_diacritics THEN FALSE
       ELSE IF base_chars_count = 0 THEN diacritics_count > 0
       ELSE diacritics_count * ratio_den >= ratio_num * base_chars_count

\* utils/text_utils.py is_zalgo_text
is_zalgo_text(text, min_diacritics, ratio_num, ratio_den) ==
    LET n == NFD(text)
        diacritics_count == CountIn(n, MarkChars)
        base_chars_count == Len(n) - diacritics_count
    IN IF text = << >> THEN FALSE
       ELSE IF diacritics_count < min_diacritics THEN FALSE
       ELSE IF base_chars_count = 0 THEN diacritics_count > 0
       ELSE diacritics_count * ratio_den >= ratio_num * base_chars_count

\* \w of the regular expressions
IsWordChar(c) == c \in UpperChars \cup LowerChars \cup DigitChars \cup ComposedChars
\* \b between positions p and p+1 of s
WordBoundary(s, p) ==
    LET l == IF p >= 1 /\ p <= Len(s) THEN IsWordChar(s[p]) ELSE FALSE
        r == IF p + 1 >= 1 /\ p + 1 <= Len(s) THEN IsWordChar(s[p + 1]) ELSE FALSE
    IN l # r
AsciiLetters == {"a", "x", "y", "w", "h", "i", "t", "m", "e", "z", "A", "X", "Y", "W"}
DomainChars == AsciiLetters \cup DigitChars \cup {".", "-"}

\* r'\b[a-zA-Z0-9.-]+\.[a-zA-Z]{2,}\b'
MatchesDomain(s) ==
    \E a \in 1..Len(s) : \E b \in a..Len(s) : \E d \in (b + 3)..Len(s) :
        /\ WordBoundary(s, a - 1)
        /\ \A i \in a..b : s[i] \in DomainChars
        /\ s[b + 1] = "."
        /\ \A i \in (b + 2)..d : s[i] \in AsciiLetters
        /\ WordBoundary(s, d)

\* the link_patterns loop of check_user_message, on message_text.lower()
has_link_in_text(message_text) ==
    LET normalized_text == MapLower(message_text)
    IN \/ Contains(normalized_text, <<"h", "t", "t", "p", ":", "/", "/">>)
       \/ Contains(normalized_text, <<"h", "t", "t", "p", "s", ":", "/", "/">>)
       \/ Contains(normalized_text, <<"t", ".", "m", "e", "/">>)
       \/ Contains(normalized_text,
                   <<"t", "e", "l", "e", "g", "r", "a", "m", ".", "m", "e", "/">>)
       \/ MatchesDomain(normalized_text)

\* re.findall(r'[A-ZА-ЯЁ]', message_text)
uppercase_letters(message_text) == CountIn(message_text, UpperChars)

\* ------------------------------------------------------------------------
\* Rooms, users, texts
\* ------------------------------------------------------------------------
Rooms == {1}
Users == {1, 2}
Keys == Rooms \X Users

T_empty == << >>
T_hi == <<"h", "i">>
T_caps == <<"A", "A", "A", "A", "A", "A", "A", "A">>
\* seven capitals in eight characters
T_almost == <<"A", "A", "A", "A", "A", "A", "A", "h">>
\* the room's banned word is "x y"; this text holds it in other case and spacing
T_word == <<"X", " ", "\n", "y">>
\* eight capitals and the banned word
T_capsword == <<"X", " ", "Y", "A", "A", "A", "A", "A", "A">>
\* one base letter under four combining marks
T_zalgo == <<"z", "U+0303", "U+0303", "U+0303", "U+0303">>
T_link == <<"t", ".", "m", "e", "/", "x">>
\* the ladder's first warning notice, retyped by a user in other case and spacing
T_mimic == <<"W", " ", " ", "1">>

\* The notices the bot posts.  Each template is kept as one short text; the
\* ladder's warning carries the running count.
N_warn(n) == <<"w", " ", IF n = 1 THEN "1" ELSE "m">>
N_mute == <<"m", "u", "t", "e">>
N_zalgo_warn == <<"z", "w">>
N_mimic_warn == <<"i", "w">>
N_mimic_mute == <<"i", "m">>
N_forward_ban == <<"f", "b">>
N_word_ban == <<"w", "b">>

\* db.get_chat_ban_words(chat_id): stored normalized, ORDER BY word
ChatBanWords(room) == << <<"x", " ", "y">> >>

\* ------------------------------------------------------------------------
\* State
\* ------------------------------------------------------------------------
VARIABLES
    now,                      \* time.time()
    user_moderation_tracker,  \* (chat, user) -> warnings, last_messages, ...
    tracker_order,            \* the keys of the tracker dict, oldest first
    bot_message_cache,        \* chat -> recent normalized bot texts
    user_message_id_cache,    \* (chat, user) -> number of cached message ids
    chat_member,              \* the platform's view of (chat, user)
    banned_users,             \* users with an active global-ban record
    whitelisted_users,        \* (chat, user) pairs on the whitelist
    delete_links_enabled,     \* chat -> link ban switched on
    ticks,                    \* Ticks taken
    handled,                  \* events handled
    faults,                   \* events during which a platform call failed
    repeated,                 \* the text the sender of a flood repeats
    welcome_captcha_enabled,  \* chat -> captcha switched on
    welcome_text,             \* chat -> a welcome text is set
    bios,                     \* user -> the bio get_chat returns
    bio_check_cache,          \* user -> time of the last bio check
    jobs,                     \* the job queue: scheduled, not yet fired
    job,                      \* the job that is running, with its position
    handler,                  \* the update handler that is running
    updates,                  \* updates the platform has queued for the bot
    chat_messages,            \* welcome/captcha messages still in the chat
    next_message_id,          \* the id the next bot message gets
    verified,                 \* members whose restriction verification lifted
    ban_nickname_words,       \* rows (chat_id, word) of table ban_nickname_words
    names,                    \* user -> <<username, first_name, last_name>>
    unbanned_rows,            \* users whose row of banned_users has is_active = 0
    profile_checks,           \* (chat_id, user_id) rows of table profile_checks
    inactive_chats,           \* rooms with chat_settings.is_active = 0
    ban_proposals,            \* context.bot_data['ban_proposals']: request id -> proposal
    rule_rows,                \* (table, chat_id, word) rows of ban_words and ban_bio_words
                              \* added through a rule proposal
    profile_photos,           \* user -> the current profile photo, or NoPhoto
    avatar_check_cache,       \* user -> time of the last avatar check, or NoCheck
    user_avatar_phash_cache,  \* (file_unique_id, phash) pairs computed so far
    running,                  \* the message handlers in flight, each with its position
    ev                        \* the event handled last, with the calls it made

vars == <<now, user_moderation_tracker, tracker_order, bot_message_cache,
          user_message_id_cache, chat_member, banned_users, whitelisted_users,
          delete_links_enabled, ticks, handled, faults, repeated,
          welcome_captcha_enabled, welcome_text, bios, bio_check_cache, jobs, job,
          handler, updates, chat_messages, next_message_id, verified,
          ban_nickname_words, names, unbanned_rows, profile_checks,
          inactive_chats, ban_proposals, rule_rows, profile_photos,
          avatar_check_cache, user_avatar_phash_cache, running, ev>>

\* the tables and profiles no handler of the content and gate
\* specifications writes
\* a request id without a stored proposal
NoProposal == [type |-> "none"]
RequestIds == {1, 2}

\* a user without a profile photo
NoPhoto == [file_unique_id |-> "none"]

db_vars == <<ban_nickname_words, names, unbanned_rows, profile_checks, inactive_chats,
             ban_proposals, rule_rows, profile_photos, avatar_check_cache,
             user_avatar_phash_cache, running>>

\* what the message handlers leave alone
gate_vars == <<welcome_captcha_enabled, welcome_text, bios, jobs, job, handler,
               updates, chat_messages, next_message_id, verified>>

EmptyEntry == [warnings |-> 0, last_messages |-> << >>, zalgo_warnings |-> 0,
               mimic_warnings |-> 0]

\* the platform's ChatMember objects
M_left == [status |-> "left", can_send_messages |-> FALSE, can_send_photos |-> FALSE]
M_member == [status |-> "member", can_send_messages |-> TRUE, can_send_photos |-> TRUE]
M_admin == [status |-> "administrator", can_send_messages |-> TRUE, can_send_photos |-> TRUE]
M_kicked == [status |-> "kicked", can_send_messages |-> FALSE, can_send_photos |-> FALSE]

\* handlers/permissions.py
PERMS_UNRESTRICTED == [can_send_messages |-> TRUE, can_send_photos |-> TRUE]
PERMS_MEDIA_RESTRICT == [can_send_messages |-> TRUE, can_send_photos |-> FALSE]
PERMS_FULL_RESTRICT == [can_send_messages |-> FALSE, can_send_photos |-> FALSE]
\* ChatPermissions(can_send_messages=False) of the timed mutes
PERMS_MUTE == [can_send_messages |-> FALSE, can_send_photos |-> FALSE]

\* what restrict_chat_member leaves on the platform: a member whose
\* permissions are all granted is an ordinary member again
Restricted(perms) ==
    IF perms = PERMS_UNRESTRICTED THEN M_member
    ELSE [status |-> "restricted", can_send_messages |-> perms.can_send_messages,
          can_send_photos |-> perms.can_send_photos]

\* ------------------------------------------------------------------------
\* Handlers work on a snapshot S of the state and return the new one; S.calls
\* lists the platform, database and log calls made, in order, S.exc says that
\* an exception left the handler, S.ret is the value returned.
\* ------------------------------------------------------------------------
Snapshot ==
    [trk |-> user_moderation_tracker, ord |-> tracker_order,
     bmc |-> bot_message_cache, ids |-> user_message_id_cache,
     mem |-> chat_member, gb |-> banned_users, bcc |-> bio_check_cache,
     calls |-> << >>, exc |-> FALSE, ret |-> FALSE, stop |-> FALSE, acted |-> "none"]

Call(S, c, ok, n) == [S EXCEPT !.calls = Append(@, [call |-> c, ok |-> ok, n |-> n])]
Return(S, v) == [S EXCEPT !.ret = v]
Raise(S) == [S EXCEPT !.exc = TRUE]
\* raise ApplicationHandlerStop
Stop(S) == [S EXCEPT !.stop = TRUE, !.ret = TRUE]

InSeq(q, x) == \E i \in 1..Len(q) : q[i] = x
InTracker(S, k) == InSeq(S.ord, k)

\* user_moderation_tracker[key] = {'warnings': 0, 'last_messages': [], ...}
NewEntry(S, k) == [S EXCEPT !.trk[k] = EmptyEntry, !.ord = Append(@, k)]
EnsureEntry(S, k) == IF InTracker(S, k) THEN S ELSE NewEntry(S, k)

\* del user_moderation_tracker[next(iter(user_moderation_tracker))]
EvictOldest(S) == [S EXCEPT !.trk[Head(S.ord)] = EmptyEntry, !.ord = Tail(@)]

\* utils/helpers.py add_bot_message_to_cache
add_bot_message_to_cache(S, room, text) ==
    LET normalized_text == normalize_text(text)
        q == S.bmc[room]
    IN IF text = << >> THEN S
       ELSE IF normalized_text # << >> /\ ~InSeq(q, normalized_text)
       THEN [S EXCEPT !.bmc[room] =
                IF Len(q) >= BOT_MESSAGE_CACHE_SIZE
                THEN Append(Tail(q), normalized_text)
                ELSE Append(q, normalized_text)]
       ELSE S

\* handlers/helpers.py add_user_message_id
add_user_message_id(S, k) ==
    [S EXCEPT !.ids[k] = IF @ + 1 > USER_MESSAGE_CACHE_SIZE THEN @ ELSE @ + 1]

\* the chunk loop of delete_cached_messages: a failed batch is logged and
\* the loop goes on
RECURSIVE delete_chunks(_, _, _)
delete_chunks(S, chunks, f) ==
    IF chunks = 0 THEN S
    ELSE delete_chunks(Call(S, "delete_messages", f # "purge", 0), chunks - 1, f)

\* handlers/helpers.py delete_cached_messages
delete_cached_messages(S, k, f) ==
    LET n == S.ids[k]
        S1 == [S EXCEPT !.ids[k] = 0]
        S2 == Call(S1, "delete_cached_messages", TRUE, n)
    IN IF n = 0 THEN S2 ELSE delete_chunks(S2, (n + 99) \div 100, f)

\* a faulty variant of the ladder's threshold test: one warning too late
ladder_reached_late(warnings) == warnings > MAX_WARNINGS

\* if data['warnings'] >= MAX_WARNINGS
ladder_reached(warnings) == warnings >= MAX_WARNINGS

\* handlers/message_handlers.py _issue_warning_and_mute_if_needed
issue_warning_and_mute_if_needed(S, k, f) ==
    LET S1 == EnsureEntry(S, k)
        S2 == [S1 EXCEPT !.trk[k].warnings = @ + 1]
        total == S2.trk[k].warnings
        S3 == Call(S2, "log_WarningIssued", TRUE, total)
        S4 == Call(S3, "bot_can_restrict", f # "noperm", 0)
        muted == [Call(S4, "restrict_mute", TRUE, 0) EXCEPT
                     !.mem[k] = Restricted(PERMS_MUTE), !.trk[k].warnings = 0]
    IN IF ladder_reached(total)
       THEN IF f = "noperm" THEN Return(S4, TRUE)
            ELSE IF f = "restrict" THEN Return(Call(S4, "restrict_mute", FALSE, 0), TRUE)
            ELSE IF f = "send" THEN Return(Call(muted, "send_mute", FALSE, 0), TRUE)
            ELSE Return(Call(add_bot_message_to_cache(
                                Call(muted, "send_mute", TRUE, 0), k[1], N_mute),
                             "db_log_mute", TRUE, 0), TRUE)
       ELSE IF f = "send" THEN Raise(Call(S3, "send_warn", FALSE, total))
            ELSE Return(Call(add_bot_message_to_cache(
                                Call(S3, "send_warn", TRUE, total), k[1], N_warn(total)),
                             "db_log_warn", TRUE, 0), TRUE)

\* a faulty variant of the flood reset: the matching entries stay in the buffer
reset_identical_keep(last_messages, message_text) == last_messages

\* data['last_messages'] = [m for m in ... if m['text'] != message_text]
reset_identical(last_messages, message_text) ==
    SelectSeq(last_messages, LAMBDA m : m.text # message_text)

\* the buffer after the append and the window filter of _check_spam
spam_window(last_messages, message_text, t) ==
    SelectSeq(Append(last_messages, [text |-> message_text, time |-> t]),
              LAMBDA m : m.time >= t - SPAM_WINDOW_SECONDS)

identical_count(last_messages, message_text) ==
    Len(SelectSeq(last_messages, LAMBDA m : m.text = message_text))

\* handlers/message_handlers.py _check_spam
check_spam(S, k, message_text, f) ==
    LET S0 == IF Len(S.ord) > MAX_HISTORY_USERS /\ ~InTracker(S, k)
              THEN EvictOldest(S) ELSE S
        S1 == EnsureEntry(S0, k)
        kept == spam_window(S1.trk[k].last_messages, message_text, now)
    IN IF message_text = << >> THEN Return(S, FALSE)
       ELSE IF identical_count(kept, message_text) >= MAX_IDENTICAL_MESSAGES_BEFORE_WARN
       THEN issue_warning_and_mute_if_needed(
                Call([S1 EXCEPT !.trk[k].last_messages = reset_identical(kept, message_text)],
                     "delete_message", f # "delete", 0),
                k, f)
       ELSE Return([S1 EXCEPT !.trk[k].last_messages = kept], FALSE)

\* a faulty variant of the caps test: the threshold itself does not count
caps_violation_strict(message_text) ==
    /\ message_text # << >>
    /\ Len(message_text) >= CAPS_THRESHOLD
    /\ uppercase_letters(message_text) > CAPS_THRESHOLD

\* the two tests of _check_caps
caps_violation(message_text) ==
    /\ message_text # << >>
    /\ Len(message_text) >= CAPS_THRESHOLD
    /\ uppercase_letters(message_text) >= CAPS_THRESHOLD

\* handlers/message_handlers.py _check_caps
check_caps(S, k, message_text, f) ==
    IF caps_violation(message_text)
    THEN issue_warning_and_mute_if_needed(
             Call(S, "delete_message", f # "delete", 0), k, f)
    ELSE Return(S, FALSE)

\* the send loop of propose_global_ban: one message per administrator, a
\* failed send is logged and the loop goes on
RECURSIVE propose_sends(_, _, _)
propose_sends(S, admins, f) ==
    IF admins = << >> THEN S
    ELSE propose_sends(Call(S, "send_proposal", f # "propose", Head(admins)),
                       Tail(admins), f)

\* utils/notifications.py propose_global_ban
propose_global_ban(S, f) ==
    IF ADMIN_IDS = << >> THEN S ELSE propose_sends(S, ADMIN_IDS, f)

\* a faulty variant of Database.ban_user: nothing is stored
db_ban_user_noop(S, user) == S

\* utils/database.py Database.ban_user.  banned_users has user_id as its
\* PRIMARY KEY: with an active row the method returns False before any
\* write; with an inactive row the INSERT raises sqlite3.IntegrityError,
\* which the method catches, logs and answers with False.
db_ban_user(S, user) ==
    IF user \in S.gb THEN S
    ELSE IF user \in unbanned_rows THEN Call(S, "db_ban_user", FALSE, 0)
    ELSE Call([S EXCEPT !.gb = @ \cup {user}], "db_ban_user", TRUE, 0)

\* context.bot.ban_chat_member, when it succeeds
Banned(S, k) == [Call(S, "ban_chat_member", TRUE, 0) EXCEPT !.mem[k] = M_kicked]
BanFailed(S) == Call(S, "ban_chat_member", FALSE, 0)

\* a faulty variant of _handle_zalgo_violation: the strike goes to the
\* shared warning ladder
handle_zalgo_violation_ladder(S, k, is_edited, f) ==
    issue_warning_and_mute_if_needed(S, k, f)

\* handlers/message_handlers.py _handle_zalgo_violation.  In the ban branch
\* the notice text reads user_mention, which only the warning branch
\* assigns: the send raises, and the handler's except clause logs it.
handle_zalgo_violation(S, k, is_edited, f) ==
    LET S1 == EnsureEntry(S, k)
        S2 == [S1 EXCEPT !.trk[k].zalgo_warnings = @ + 1]
        purged == delete_cached_messages(S2, k, f)
    IN IF S2.trk[k].zalgo_warnings > 1
       THEN IF f = "ban" THEN BanFailed(purged)
            ELSE Call(Banned(purged, k), "send_notice_raises", FALSE, 0)
       ELSE IF f = "send" THEN Raise(Call(S2, "send_zalgo_warn", FALSE, 0))
            ELSE add_bot_message_to_cache(Call(S2, "send_zalgo_warn", TRUE, 0),
                                          k[1], N_zalgo_warn)

\* handlers/message_handlers.py _ban_for_word
ban_for_word(S, k, word, is_edited, f) ==
    LET banned == delete_cached_messages(Banned(S, k), k, f)
        noticed == add_bot_message_to_cache(Call(banned, "send_ban_notice", TRUE, 0),
                                            k[1], N_word_ban)
    IN IF f = "ban"
       THEN Call(BanFailed(S), "delete_message", TRUE, 0)
       ELSE IF f = "send"
       THEN Call(Call(banned, "send_ban_notice", FALSE, 0), "delete_message", TRUE, 0)
       ELSE db_ban_user(propose_global_ban(noticed, f), k[2])

\* handlers/message_handlers.py _handle_mimicking_violation
handle_mimicking_violation(S, k, f) ==
    LET S1 == EnsureEntry(S, k)
        S2 == [S1 EXCEPT !.trk[k].mimic_warnings = @ + 1]
        muted == [Call(S2, "restrict_mute", TRUE, 0) EXCEPT
                     !.mem[k] = Restricted(PERMS_MUTE)]
    IN IF S2.trk[k].mimic_warnings > 1
       THEN IF f \in {"restrict", "noperm"} THEN Call(S2, "restrict_mute", FALSE, 0)
            ELSE IF f = "send" THEN Call(muted, "send_mimic_mute", FALSE, 0)
            ELSE [add_bot_message_to_cache(Call(muted, "send_mimic_mute", TRUE, 0),
                                           k[1], N_mimic_mute)
                      EXCEPT !.trk[k].mimic_warnings = 0]
       ELSE IF f = "send" THEN Raise(Call(S2, "send_mimic_warn", FALSE, 0))
            ELSE add_bot_message_to_cache(Call(S2, "send_mimic_warn", TRUE, 0),
                                          k[1], N_mimic_warn)

\* the test of _check_bot_mimicking
mimics_bot(S, room, message_text) ==
    /\ message_text # << >>
    /\ S.bmc[room] # << >>
    /\ InSeq(S.bmc[room], normalize_text(message_text))

\* handlers/message_handlers.py _check_bot_mimicking
check_bot_mimicking(S, k, message_text, f) ==
    IF mimics_bot(S, k[1], message_text)
    THEN IF f = "delete" THEN Raise(Call(S, "delete_message", FALSE, 0))
         ELSE LET R == handle_mimicking_violation(Call(S, "delete_message", TRUE, 0), k, f)
              IN IF R.exc THEN R ELSE Return(R, TRUE)
    ELSE Return(S, FALSE)

\* update.message.forward_from_chat.type in [CHANNEL, SUPERGROUP]
is_public_forward(msg) == msg.fwd \in {"channel", "supergroup"}

\* check_user_message, the forwarded-message block
check_forward(S, k, msg, f) ==
    LET purged == delete_cached_messages(S, k, f)
    IN IF is_public_forward(msg)
       THEN Return(IF f = "ban" THEN BanFailed(purged)
                   ELSE IF f = "send" THEN Call(Banned(purged, k), "send_ban_notice", FALSE, 0)
                   ELSE propose_global_ban(
                            add_bot_message_to_cache(
                                Call(Banned(purged, k), "send_ban_notice", TRUE, 0),
                                k[1], N_forward_ban), f),
                   TRUE)
       ELSE Return(S, FALSE)

\* check_user_message, the Zalgo block
check_zalgo(S, k, msg, f) ==
    IF is_zalgo_text(msg.text, ZALGO_MIN_DIACRITICS, ZALGO_RATIO_NUM, ZALGO_RATIO_DEN)
    THEN LET R == handle_zalgo_violation(Call(S, "delete_message", f # "delete", 0),
                                         k, FALSE, f)
         IN IF R.exc THEN R ELSE Return(R, TRUE)
    ELSE Return(S, FALSE)

\* has_link_entity or has_link_in_text
has_link(msg) ==
    \/ msg.link_entity
    \/ (msg.text # << >> /\ has_link_in_text(msg.text))

\* check_user_message, the link block
check_link(S, k, msg, f) ==
    LET banned == delete_cached_messages(Banned(S, k), k, f)
    IN IF has_link(msg) /\ delete_links_enabled[k[1]]
       THEN Stop(IF f = "ban" THEN Call(BanFailed(S), "delete_message", TRUE, 0)
                 ELSE IF f = "send"
                 THEN Call(Call(banned, "send_ban_notice", FALSE, 0), "delete_message", TRUE, 0)
                 ELSE db_ban_user(propose_global_ban(
                                      Call(banned, "send_ban_notice", TRUE, 0), f), k[2]))
       ELSE Return(S, FALSE)

\* for word in banned_words: if word in normalized_text -- the first match
RECURSIVE first_match(_, _)
first_match(words, normalized_text) ==
    IF words = << >> THEN << >>
    ELSE IF Contains(normalized_text, Head(words)) THEN <<Head(words)>>
    ELSE first_match(Tail(words), normalized_text)

\* check_user_message, the banned-word block
check_banned_word(S, k, msg, f) ==
    LET hit == first_match(ChatBanWords(k[1]), normalize_text(msg.text))
    IN IF msg.text = << >> \/ ChatBanWords(k[1]) = << >> \/ hit = << >>
       THEN Return(S, FALSE)
       ELSE Stop(ban_for_word(Call(S, "delete_message", f # "delete", 0),
                              k, hit[1], FALSE, f))

\* a faulty variant of the whitelist test: nobody is exempt
is_whitelisted_nobody(k) == FALSE

\* db.is_whitelisted(chat_id, user_id)
is_whitelisted(k) == k \in whitelisted_users

\* member.status in [ChatMember.ADMINISTRATOR, ChatMember.OWNER]
is_chat_admin(S, k) == S.mem[k].status \in {"administrator", "creator"}

\* a faulty variant of the order of the checks: the banned word is looked for first
PipelineOrderWordFirst == <<"word", "mimic", "forward", "spam", "caps", "zalgo", "link">>

\* the order of the content checks in check_user_message
PipelineOrder == <<"mimic", "forward", "spam", "caps", "zalgo", "link", "word">>

run_check(name, S, k, msg, f) ==
    CASE name = "mimic" -> check_bot_mimicking(S, k, msg.text, f)
      [] name = "forward" -> check_forward(S, k, msg, f)
      [] name = "spam" -> check_spam(S, k, msg.text, f)
      [] name = "caps" -> check_caps(S, k, msg.text, f)
      [] name = "zalgo" -> check_zalgo(S, k, msg, f)
      [] name = "link" -> check_link(S, k, msg, f)
      [] name = "word" -> check_banned_word(S, k, msg, f)

\* `handled = await check(...); if handled: return`, check after check
RECURSIVE run_checks(_, _, _, _, _)
run_checks(S, order, k, msg, f) ==
    IF order = << >> THEN S
    ELSE LET R == run_check(Head(order), S, k, msg, f)
         IN IF R.exc \/ R.ret THEN [R EXCEPT !.acted = Head(order)]
            ELSE run_checks(R, Tail(order), k, msg, f)

\* check_user_message, the global-ban block.  The notice text reads
\* user_mention before any assignment to it: the send raises and is logged.
reban_global(S, k, f) ==
    LET purged == delete_cached_messages(S, k, f)
    IN [Stop(IF f = "ban" THEN BanFailed(purged)
             ELSE Call(Banned(purged, k), "send_notice_raises", FALSE, 0))
           EXCEPT !.acted = "global_ban"]

\* a faulty variant of check_user_message: the whitelist is asked before the
\* global-ban registry
check_user_message_whitelist_first(S, k, msg, f) ==
    LET S1 == add_user_message_id(S, k)
    IN IF ~MODERATE_ADMINS /\ is_chat_admin(S1, k) THEN S1
       ELSE IF is_whitelisted(k) THEN S1
       ELSE IF k[2] \in S1.gb THEN reban_global(S1, k, f)
       ELSE run_checks(S1, PipelineOrder, k, msg, f)

\* handlers/message_handlers.py check_user_message
check_user_message(S, k, msg, f) ==
    LET S1 == add_user_message_id(S, k)
    IN IF ~MODERATE_ADMINS /\ is_chat_admin(S1, k) THEN S1
       ELSE IF k[2] \in S1.gb THEN reban_global(S1, k, f)
       ELSE IF is_whitelisted(k) THEN S1
       ELSE run_checks(S1, PipelineOrder, k, msg, f)

\* a faulty variant of handle_edited_message: the edit goes through every check of
\* check_user_message
handle_edited_message_full(S, k, msg, f) ==
    IF msg.text = << >> THEN S
    ELSE IF ~MODERATE_ADMINS /\ is_chat_admin(S, k) THEN S
    ELSE IF is_whitelisted(k) THEN S
    ELSE run_checks(S, PipelineOrder, k, msg, f)

\* handlers/message_handlers.py handle_edited_message
handle_edited_message(S, k, msg, f) ==
    LET hit == first_match(ChatBanWords(k[1]), normalize_text(msg.text))
    IN IF msg.text = << >> THEN S
       ELSE IF ~MODERATE_ADMINS /\ is_chat_admin(S, k) THEN S
       ELSE IF is_whitelisted(k) THEN S
       ELSE IF is_zalgo_text(msg.text, ZALGO_MIN_DIACRITICS, ZALGO_RATIO_NUM, ZALGO_RATIO_DEN)
       THEN [Stop(handle_zalgo_violation(Call(S, "delete_message", f # "delete", 0),
                                         k, TRUE, f))
                EXCEPT !.acted = "zalgo"]
       ELSE IF ChatBanWords(k[1]) = << >> \/ hit = << >> THEN S
       ELSE [Stop(ban_for_word(S, k, hit[1], TRUE, f)) EXCEPT !.acted = "word"]

\* ------------------------------------------------------------------------
\* Events
\* ------------------------------------------------------------------------
Msg(t, fwd, le) == [text |-> t, fwd |-> fwd, link_entity |-> le]
NoMsg == Msg(<< >>, "none", FALSE)

\* the messages users send
Messages ==
    {Msg(t, "none", FALSE) :
        t \in {T_empty, T_hi, T_caps, T_almost, T_word, T_capsword, T_zalgo, T_link, T_mimic}}
    \cup {Msg(T_hi, "channel", FALSE), Msg(T_caps, "channel", FALSE),
          Msg(T_mimic, "channel", FALSE), Msg(T_hi, "none", TRUE)}
\* the texts messages are edited to
Edits == {Msg(t, "none", FALSE) : t \in {T_hi, T_caps, T_word, T_zalgo, T_link}}
\* the texts of a flood
FloodTexts == {T_hi, T_caps, T_word}

\* the platform call that fails while the event is handled, if any
Faults == {"none", "delete", "purge", "restrict", "noperm", "ban", "send"}

Event(op, k, msg, R) ==
    [op |-> op, key |-> k, msg |-> msg, calls |-> R.calls, acted |-> R.acted,
     exc |-> R.exc, stop |-> R.stop]
Idle(op, k) ==
    [op |-> op, key |-> k, msg |-> NoMsg, calls |-> << >>, acted |-> "none",
     exc |-> FALSE, stop |-> FALSE]

\* a platform call of the event failed
PlatformFailed(calls) ==
    \E i \in 1..Len(calls) : ~calls[i].ok /\ calls[i].call # "send_notice_raises"

\* the handler's result becomes the state
Commit(R, e) ==
    /\ user_moderation_tracker' = R.trk
    /\ tracker_order' = R.ord
    /\ bot_message_cache' = R.bmc
    /\ user_message_id_cache' = R.ids
    /\ chat_member' = R.mem
    /\ banned_users' = R.gb
    /\ bio_check_cache' = R.bcc
    /\ handled' = handled + 1
    /\ faults' = IF PlatformFailed(R.calls) THEN faults + 1 ELSE faults
    /\ ev' = e
    /\ UNCHANGED db_vars

\* the platform delivers messages only from members allowed to write
CanSend(k) == chat_member[k].status \in {"member", "administrator", "creator"}
              \/ (chat_member[k].status = "restricted" /\ chat_member[k].can_send_messages)

\* one more event, with at most MaxFaults failing platform calls in a run
Budget(limit, f) ==
    /\ handled < limit
    /\ (f = "none" \/ faults < MaxFaults)

\* a message arrives and check_user_message handles it
Message(k, msg, f) ==
    /\ CanSend(k)
    /\ \E R \in {check_user_message(Snapshot, k, msg, f)} :
          Commit(R, Event("message", k, msg, R))
    /\ UNCHANGED <<now, whitelisted_users, delete_links_enabled, ticks, repeated>>
    /\ UNCHANGED gate_vars

\* an edit arrives and handle_edited_message handles it
Edit(k, msg, f) ==
    /\ CanSend(k)
    /\ user_message_id_cache[k] > 0
    /\ \E R \in {handle_edited_message(Snapshot, k, msg, f)} :
          Commit(R, Event("edit", k, msg, R))
    /\ UNCHANGED <<now, whitelisted_users, delete_links_enabled, ticks, repeated>>
    /\ UNCHANGED gate_vars

\* time passes
Tick ==
    /\ ticks < MaxTicks
    /\ ticks' = ticks + 1
    /\ now' = now + TickStep
    /\ ev' = Idle("tick", <<0, 0>>)
    /\ UNCHANGED db_vars
    /\ UNCHANGED <<user_moderation_tracker, tracker_order, bot_message_cache,
                   user_message_id_cache, chat_member, banned_users,
                   whitelisted_users, delete_links_enabled, handled, faults,
                   repeated, bio_check_cache>>
    /\ UNCHANGED gate_vars

\* an administrator's /unmute (admin_handlers.py unmute_user): the
\* restriction is lifted; the timed mute also ends by itself
Unmute(k) ==
    /\ chat_member[k].status = "restricted"
    /\ chat_member' = [chat_member EXCEPT ![k] = Restricted(PERMS_UNRESTRICTED)]
    /\ ev' = Idle("unmute", k)
    /\ UNCHANGED db_vars
    /\ UNCHANGED <<now, user_moderation_tracker, tracker_order, bot_message_cache,
                   user_message_id_cache, banned_users, whitelisted_users,
                   delete_links_enabled, ticks, handled, faults, repeated,
                   bio_check_cache>>
    /\ UNCHANGED gate_vars

NoCheck == -1
NoJob == [kind |-> "none", key |-> <<0, 0>>, msg |-> 0, pc |-> "none", member |-> M_left]
NoHandler == [op |-> "none", key |-> <<0, 0>>, pc |-> "none", msg |-> 0]

\* no nickname rule is stored; users carry a first name only; nobody was
\* ever unbanned
DbIdle ==
    /\ ban_nickname_words = {}
    /\ unbanned_rows = {}
    /\ profile_checks = {}
    /\ inactive_chats = {}
    /\ ban_proposals = [r \in RequestIds |-> NoProposal]
    /\ rule_rows = {}
    /\ profile_photos = [u \in Users |-> NoPhoto]
    /\ avatar_check_cache = [u \in Users |-> NoCheck]
    /\ user_avatar_phash_cache = {}
    /\ running = {}
    /\ names = [u \in Users |-> <<T_empty, T_hi, T_empty>>]

\* no join is under way
GateIdle ==
    /\ DbIdle
    /\ welcome_captcha_enabled = [r \in Rooms |-> FALSE]
    /\ welcome_text = [r \in Rooms |-> FALSE]
    /\ bios = [u \in Users |-> << >>]
    /\ bio_check_cache = [u \in Users |-> NoCheck]
    /\ jobs = {}
    /\ job = NoJob
    /\ handler = NoHandler
    /\ updates = << >>
    /\ chat_messages = {}
    /\ next_message_id = 1
    /\ verified = {}

\* the member whose events the content specifications follow
Sender == <<1, 1>>

\* The sender may be on the room's whitelist, may carry a global ban issued
\* by hand, and the room may have the link ban on.
InitContent ==
    /\ now = 0
    /\ ticks = 0
    /\ handled = 0
    /\ faults = 0
    /\ user_moderation_tracker = [k \in Keys |-> EmptyEntry]
    /\ tracker_order = << >>
    /\ bot_message_cache = [r \in Rooms |-> << >>]
    /\ user_message_id_cache = [k \in Keys |-> 0]
    /\ \E m \in {M_member, M_admin} :
          chat_member = [k \in Keys |-> IF k = Sender THEN m ELSE M_member]
    /\ banned_users \in {{}, {Sender[2]}}
    /\ whitelisted_users \in {{}, {Sender}}
    /\ delete_links_enabled \in [Rooms -> BOOLEAN]
    /\ repeated = T_hi
    /\ GateIdle
    /\ ev = Idle("init", <<0, 0>>)

NextContent ==
    \/ \E msg \in Messages, f \in Faults :
          Budget(MaxEvents, f) /\ Message(Sender, msg, f)
    \/ \E msg \in Edits, f \in Faults :
          Budget(MaxEvents, f) /\ Edit(Sender, msg, f)
    \/ Unmute(Sender)

SpecContent == InitContent /\ [][NextContent]_vars

\* a flood: the sender repeats one text
InitFlood ==
    /\ now = 0
    /\ ticks = 0
    /\ handled = 0
    /\ faults = 0
    /\ user_moderation_tracker = [k \in Keys |-> EmptyEntry]
    /\ tracker_order = << >>
    /\ bot_message_cache = [r \in Rooms |-> << >>]
    /\ user_message_id_cache = [k \in Keys |-> 0]
    /\ chat_member = [k \in Keys |-> M_member]
    /\ banned_users = {}
    /\ whitelisted_users = {}
    /\ delete_links_enabled \in [Rooms -> BOOLEAN]
    /\ repeated \in FloodTexts
    /\ GateIdle
    /\ ev = Idle("init", <<0, 0>>)

NextFlood ==
    \/ \E f \in Faults :
          Budget(MaxBurst, f) /\ Message(Sender, Msg(repeated, "none", FALSE), f)
    \/ Tick
    \/ Unmute(Sender)

SpecFlood == InitFlood /\ [][NextFlood]_vars

\* a member repeats a notice the bot posted in the room earlier
InitMimic ==
    /\ now = 0
    /\ ticks = 0
    /\ handled = 0
    /\ faults = 0
    /\ user_moderation_tracker = [k \in Keys |-> EmptyEntry]
    /\ tracker_order = << >>
    /\ bot_message_cache = [r \in Rooms |-> <<normalize_text(N_warn(1))>>]
    /\ user_message_id_cache = [k \in Keys |-> 0]
    /\ chat_member = [k \in Keys |-> M_member]
    /\ banned_users = {}
    /\ whitelisted_users = {}
    /\ delete_links_enabled \in [Rooms -> BOOLEAN]
    /\ repeated = T_mimic
    /\ GateIdle
    /\ ev = Idle("init", <<0, 0>>)

SpecMimic == InitMimic /\ [][NextFlood]_vars

\* ------------------------------------------------------------------------
\* The join gate: profile screening, captcha, deferred jobs
\* ------------------------------------------------------------------------
\* events of the joining member and of bystanders in one run
MaxGateEvents == 2
\* welcome and captcha messages posted in one run
MaxMessages == 2

\* the user who joins, and a member who is already in the room
Joiner == <<1, 1>>
Bystander == <<1, 2>>

\* a bio with the banned bio word and a link
T_linkword == <<"t", ".", "m", "e", "/", "x", " ", "y">>
Bios == {T_hi, T_word, T_linkword}

\* db.get_ban_bio_words(chat_id)
ChatBanBioWords(room) == << <<"x", " ", "y">> >>

\* the top-level domains LINK_IN_BIO_PATTERN lists
BioTlds ==
    {<<"c", "o", "m">>, <<"o", "r", "g">>, <<"n", "e", "t">>, <<"i", "n", "f", "o">>,
     <<"b", "i", "z">>, <<"r", "u">>, <<"s", "u">>, <<"U+0440", "U+0444">>,
     <<"m", "e">>, <<"i", "o">>, <<"d", "e", "v">>, <<"a", "p", "p">>,
     <<"x", "y", "z">>, <<"g", "g">>, <<"d", "o", "g">>, <<"l", "y">>, <<"s", "h">>}

\* LINK_IN_BIO_PATTERN.search(bio.lower())
link_in_bio(bio_lower) ==
    \/ Contains(bio_lower, <<"h", "t", "t", "p", ":", "/", "/">>)
    \/ Contains(bio_lower, <<"h", "t", "t", "p", "s", ":", "/", "/">>)
    \/ Contains(bio_lower, <<"t", ".", "m", "e", "/">>)
    \/ Contains(bio_lower, <<"t", "e", "l", "e", "g", "r", "a", "m", ".", "m", "e", "/">>)
    \/ \E a \in 1..Len(bio_lower) : \E b \in a..Len(bio_lower) : \E tld \in BioTlds :
          /\ b + 1 + Len(tld) <= Len(bio_lower)
          /\ WordBoundary(bio_lower, a - 1)
          /\ \A i \in a..b : bio_lower[i] \in DomainChars
          /\ bio_lower[b + 1] = "."
          /\ SubSeq(bio_lower, b + 2, b + 1 + Len(tld)) = tld
          /\ WordBoundary(bio_lower, b + 1 + Len(tld))

\* the member is in the chat
InChat(m) == m.status \in {"member", "restricted", "administrator", "creator"}

\* what the platform reports for a member after all permissions are granted
\* again: an ordinary member, or a restricted member with every permission
LiftOutcomes ==
    {M_member,
     [status |-> "restricted", can_send_messages |-> TRUE, can_send_photos |-> TRUE]}

\* context.bot.restrict_chat_member
restrict_chat_member(S, k, result, f) ==
    IF f = "restrict" \/ ~InChat(S.mem[k])
    THEN Raise(Call(S, "restrict_chat_member", FALSE, 0))
    ELSE [Call(S, "restrict_chat_member", TRUE, 0) EXCEPT !.mem[k] = result]

\* the loop over ADMIN_IDS in check_user_bio: one decision request each
RECURSIVE moderation_sends(_, _)
moderation_sends(S, admins) ==
    IF admins = << >> THEN S
    ELSE moderation_sends(Call(S, "send_moderation", TRUE, Head(admins)), Tail(admins))

\* check_user_bio, the link branch: purge, delete the message the check came
\* with, restrict and ask the administrators
bio_link_moderation(S, k, has_message, f) ==
    LET cleared == delete_cached_messages(Call(S, "bot_can_restrict", TRUE, 0), k, f)
        purged == IF has_message THEN Call(cleared, "delete_message", f # "delete", 0)
                  ELSE cleared
        R == restrict_chat_member(purged, k, Restricted(PERMS_FULL_RESTRICT), f)
    IN IF f = "noperm" THEN Return(Call(S, "bot_can_restrict", FALSE, 0), FALSE)
       ELSE IF R.exc THEN Return([R EXCEPT !.exc = FALSE], FALSE)
       ELSE IF ADMIN_IDS = << >> THEN Return(R, TRUE)
       ELSE IF f = "send" THEN Return(Call(R, "send_moderation", FALSE, Head(ADMIN_IDS)), FALSE)
       ELSE Return(moderation_sends(R, ADMIN_IDS), TRUE)

\* a faulty variant of _ban_for_profile_violation: the ban comes before the purge and
\* nothing is proposed
ban_for_profile_violation_quiet(S, k, f) ==
    Return(Call(delete_cached_messages(Banned(S, k), k, f), "send_ban_notice", TRUE, 0), TRUE)

\* a faulty variant of _ban_for_profile_violation: a failed batch delete of
\* the purge ends the helper before the ban
ban_for_profile_violation_blocked(S, k, f) ==
    LET S1 == Call(S, "get_chat_member", f # "lookup", 0)
        purged == delete_cached_messages(S1, k, f)
        noticed == Call(Banned(purged, k), "send_ban_notice", TRUE, 0)
    IN IF f = "purge" /\ S.ids[k] > 0 THEN Return(purged, FALSE)
       ELSE IF f = "ban" THEN Return(BanFailed(purged), FALSE)
       ELSE IF f = "send"
       THEN Return(Call(Banned(purged, k), "send_ban_notice", FALSE, 0), FALSE)
       ELSE IF f = "lookup" THEN Return(noticed, TRUE)
       ELSE Return(propose_global_ban(noticed, f), TRUE)

\* handlers/member_handlers.py _ban_for_profile_violation
ban_for_profile_violation(S, k, f) ==
    LET S1 == Call(S, "get_chat_member", f # "lookup", 0)
        purged == delete_cached_messages(S1, k, f)
        noticed == Call(Banned(purged, k), "send_ban_notice", TRUE, 0)
    IN IF f = "ban" THEN Return(BanFailed(purged), FALSE)
       ELSE IF f = "send"
       THEN Return(Call(Banned(purged, k), "send_ban_notice", FALSE, 0), FALSE)
       ELSE IF f = "lookup" THEN Return(noticed, TRUE)
       ELSE Return(propose_global_ban(noticed, f), TRUE)

\* a faulty variant of check_user_bio: the banned words are looked for before
\* the link
check_user_bio_word_first(S, k, has_message, f) ==
    LET user == k[2]
        last_check == S.bcc[user]
        S1 == Call([S EXCEPT !.bcc[user] = now], "get_chat", TRUE, 0)
        S2 == IF has_message THEN Call(S1, "delete_message", f # "delete", 0) ELSE S1
        bio == bios[user]
        banned_bio_words == ChatBanBioWords(k[1])
        hit == first_match(banned_bio_words, normalize_text(bio))
    IN IF last_check # NoCheck /\ now - last_check < BIO_CHECK_COOLDOWN
       THEN Return(S, FALSE)
       ELSE IF bio = << >> THEN Return(S1, FALSE)
       ELSE IF banned_bio_words # << >> /\ hit # << >>
       THEN ban_for_profile_violation(S2, k, f)
       ELSE IF delete_links_enabled[k[1]] /\ link_in_bio(MapLower(bio))
       THEN bio_link_moderation(S1, k, has_message, f)
       ELSE Return(S1, FALSE)

\* a faulty variant of check_user_bio: a check skipped by the cooldown
\* records its time
check_user_bio_restamp(S, k, has_message, f) ==
    LET user == k[2]
        last_check == S.bcc[user]
        S1 == Call([S EXCEPT !.bcc[user] = now], "get_chat", TRUE, 0)
        S2 == IF has_message THEN Call(S1, "delete_message", f # "delete", 0) ELSE S1
        bio == bios[user]
        banned_bio_words == ChatBanBioWords(k[1])
        hit == first_match(banned_bio_words, normalize_text(bio))
    IN IF last_check # NoCheck /\ now - last_check < BIO_CHECK_COOLDOWN
       THEN Return([S EXCEPT !.bcc[user] = now], FALSE)
       ELSE IF bio = << >> THEN Return(S1, FALSE)
       ELSE IF delete_links_enabled[k[1]] /\ link_in_bio(MapLower(bio))
       THEN bio_link_moderation(S1, k, has_message, f)
       ELSE IF banned_bio_words = << >> \/ hit = << >> THEN Return(S1, FALSE)
       ELSE ban_for_profile_violation(S2, k, f)

\* handlers/member_handlers.py check_user_bio; has_message says that the
\* update holds a message (`update and update.message`)
check_user_bio(S, k, has_message, f) ==
    LET user == k[2]
        last_check == S.bcc[user]
        S1 == Call([S EXCEPT !.bcc[user] = now], "get_chat", TRUE, 0)
        S2 == IF has_message THEN Call(S1, "delete_message", f # "delete", 0) ELSE S1
        bio == bios[user]
        banned_bio_words == ChatBanBioWords(k[1])
        hit == first_match(banned_bio_words, normalize_text(bio))
    IN IF last_check # NoCheck /\ now - last_check < BIO_CHECK_COOLDOWN
       THEN Return(S, FALSE)
       ELSE IF bio = << >> THEN Return(S1, FALSE)
       ELSE IF delete_links_enabled[k[1]] /\ link_in_bio(MapLower(bio))
       THEN bio_link_moderation(S1, k, has_message, f)
       ELSE IF banned_bio_words = << >> \/ hit = << >> THEN Return(S1, FALSE)
       ELSE ban_for_profile_violation(S2, k, f)

\* the room id under which auto_rule_callback stores a rule for all rooms
GLOBAL_CHAT_ID == 0

\* the words of table ban_nickname_words, stored normalized, in the order
\* of ORDER BY word
NickWordOrder == << <<"x", " ", "y">>, <<"y">> >>

\* utils/database.py get_ban_nickname_words(chat_id):
\* SELECT word FROM ban_nickname_words WHERE chat_id = ? ORDER BY word
get_ban_nickname_words(chat_id) ==
    SelectSeq(NickWordOrder, LAMBDA w : <<chat_id, w>> \in ban_nickname_words)

\* handlers/member_handlers.py check_username
check_username(S, k, username, has_message, f) ==
    LET banned_words == get_ban_nickname_words(k[1])
        matched_banned_word == first_match(banned_words, normalize_text(username))
        S1 == IF has_message THEN Call(S, "delete_message", f # "delete", 0) ELSE S
    IN IF username = << >> THEN Return(S, FALSE)
       ELSE IF banned_words = << >> THEN Return(S, FALSE)
       ELSE IF matched_banned_word = << >> THEN Return(S, FALSE)
       ELSE ban_for_profile_violation(S1, k, f)

\* names_to_check = [user.username, first_name, last_name]; filter(None, ...)
names_to_check(user) == SelectSeq(names[user], LAMBDA val : val # << >>)

\* for val in filter(None, names_to_check): if await check_username(...): stop
RECURSIVE check_names(_, _, _, _, _)
check_names(S, k, vals, has_message, f) ==
    IF vals = << >> THEN Return(S, FALSE)
    ELSE LET R == check_username(S, k, Head(vals), has_message, f)
         IN IF R.ret THEN R ELSE check_names(R, k, Tail(vals), has_message, f)

\* handlers/member_handlers.py check_username_update, for the one user of a
\* new-member service message
check_username_update(S, k, f) ==
    LET B == check_user_bio(S, k, TRUE, f)
    IN IF ~MODERATE_ADMINS /\ is_chat_admin(S, k) THEN S
       ELSE IF B.ret THEN B
       ELSE check_names(B, k, names_to_check(k[2]), TRUE, f)

\* a faulty variant of greet_new_member's checks: the result of the profile
\* screening is dropped and the handler goes on to the restriction
greet_screen_on(S, k, f) ==
    IF ~MODERATE_ADMINS /\ is_chat_admin(S, k) THEN Return(S, TRUE)
    ELSE IF k[2] \in S.gb
    THEN IF f = "ban" THEN Raise(BanFailed(S))
         ELSE Return(delete_cached_messages(Banned(S, k), k, f), TRUE)
    ELSE Return(check_user_bio(S, k, FALSE, f), FALSE)

\* greet_new_member up to the restriction: the administrator check, the
\* global-ban check and the profile checks; ret says that the handler is done
greet_screen(S, k, f) ==
    IF ~MODERATE_ADMINS /\ is_chat_admin(S, k) THEN Return(S, TRUE)
    ELSE IF k[2] \in S.gb
    THEN IF f = "ban" THEN Raise(BanFailed(S))
         ELSE Return(delete_cached_messages(Banned(S, k), k, f), TRUE)
    ELSE LET B == check_user_bio(S, k, FALSE, f)
         IN IF B.ret THEN B
            ELSE check_names(B, k, names_to_check(k[2]), FALSE, f)

\* a faulty variant of the join restriction: media only, captcha or not
join_permissions_media(is_captcha_enabled) == PERMS_MEDIA_RESTRICT

\* greet_new_member, the restriction logic
join_permissions(is_captcha_enabled) ==
    IF is_captcha_enabled THEN PERMS_FULL_RESTRICT ELSE PERMS_MEDIA_RESTRICT

\* a faulty variant of the job removal: the jobs stay
remove_jobs_by_name_keep(q, kind, k) == q

\* for job in job_queue.get_jobs_by_name(name): job.schedule_removal()
remove_jobs_by_name(q, kind, k) == {j \in q : ~(j.kind = kind /\ j.key = k)}

\* a faulty variant of the test of kick_unverified_member: every member is kicked
still_unverified_always(member) == TRUE

\* kick_unverified_member: not (status != 'restricted' or can_send_messages)
still_unverified(member) == member.status = "restricted" /\ ~member.can_send_messages

\* a faulty variant of the clicker test: any press verifies
is_clicker_target_any(clicker_id, user_to_verify_id) == TRUE

\* verify_member_callback: not (clicker_id != user_to_verify_id)
is_clicker_target(clicker_id, user_to_verify_id) == clicker_id = user_to_verify_id

\* the platform queues a chat_member update for every change of a member
Emitted(old, new) ==
    LET changed == {k \in Keys : old[k] # new[k]}
        k == CHOOSE c \in changed : TRUE
    IN IF changed = {} THEN << >>
       ELSE <<[kind |-> "member", key |-> k, old |-> old[k].status,
               new |-> new[k].status, target |-> 0, msg |-> 0]>>

\* verification holds until the platform changes the member again
StillVerified(old, new) == {k \in verified : old[k] = new[k]}

\* a step of a handler or a job becomes the state
GateCommit(R, e, queue) ==
    /\ user_message_id_cache' = R.ids
    /\ chat_member' = R.mem
    /\ banned_users' = R.gb
    /\ bio_check_cache' = R.bcc
    /\ updates' = queue \o Emitted(chat_member, R.mem)
    /\ faults' = IF PlatformFailed(R.calls) THEN faults + 1 ELSE faults
    /\ ev' = e
    /\ UNCHANGED db_vars
    /\ UNCHANGED <<now, ticks, user_moderation_tracker, tracker_order,
                   bot_message_cache, whitelisted_users, delete_links_enabled,
                   repeated, welcome_captcha_enabled, welcome_text, bios>>

FaultAllowed(f) == f = "none" \/ faults < MaxFaults

\* a user joins the chat
Join(k) ==
    /\ chat_member[k].status = "left"
    /\ handled < MaxGateEvents
    /\ handled' = handled + 1
    /\ GateCommit([Snapshot EXCEPT !.mem[k] = M_member], Idle("join", k), updates)
    /\ verified' = StillVerified(chat_member, chat_member')
    /\ UNCHANGED <<jobs, job, handler, chat_messages, next_message_id>>

\* a member leaves the chat
Leave(k) ==
    /\ chat_member[k].status \in {"member", "restricted"}
    /\ handled < MaxGateEvents
    /\ handled' = handled + 1
    /\ GateCommit([Snapshot EXCEPT !.mem[k] = M_left], Idle("leave", k), updates)
    /\ verified' = StillVerified(chat_member, chat_member')
    /\ UNCHANGED <<jobs, job, handler, chat_messages, next_message_id>>

\* someone in the chat presses the button of a captcha message
Press(clicker, m) ==
    /\ m \in chat_messages
    /\ m.button
    /\ InChat(chat_member[<<m.room, clicker>>])
    /\ handled < MaxGateEvents
    /\ handled' = handled + 1
    /\ updates' = Append(updates, [kind |-> "press", key |-> <<m.room, clicker>>,
                                   old |-> "", new |-> "", target |-> m.user,
                                   msg |-> m.id])
    /\ ev' = Idle("press", <<m.room, clicker>>)
    /\ UNCHANGED db_vars
    /\ UNCHANGED <<now, ticks, user_moderation_tracker, tracker_order,
                   bot_message_cache, user_message_id_cache, chat_member,
                   banned_users, whitelisted_users, delete_links_enabled, faults,
                   repeated, welcome_captcha_enabled, welcome_text, bios,
                   bio_check_cache, jobs, job, handler, chat_messages,
                   next_message_id, verified>>

\* the update at the head of the queue, when no handler is running
NextUpdate == Head(updates)
CanDeliver == handler = NoHandler /\ updates # << >>

is_new_join(u) == u.new = "member" /\ u.old \in {"left", "kicked", "restricted"}

\* combined_member_update_handler, case 1: the member left or was kicked
DeliverLeft ==
    /\ CanDeliver
    /\ NextUpdate.kind = "member"
    /\ NextUpdate.new \in {"left", "kicked"}
    /\ GateCommit(Snapshot, Idle("mark_left", NextUpdate.key), Tail(updates))
    /\ UNCHANGED <<handled, jobs, job, handler, chat_messages, next_message_id, verified>>

\* combined_member_update_handler, case 3: no join; names are unchanged
DeliverOther ==
    /\ CanDeliver
    /\ NextUpdate.kind = "member"
    /\ NextUpdate.new \notin {"left", "kicked"}
    /\ ~is_new_join(NextUpdate)
    /\ GateCommit(Snapshot, Idle("member_update", NextUpdate.key), Tail(updates))
    /\ UNCHANGED <<handled, jobs, job, handler, chat_messages, next_message_id, verified>>

\* combined_member_update_handler, case 2: greet_new_member starts and runs
\* its checks
GreetScreen(f) ==
    /\ CanDeliver
    /\ NextUpdate.kind = "member"
    /\ is_new_join(NextUpdate)
    /\ next_message_id <= MaxMessages
    /\ FaultAllowed(f)
    /\ \E R \in {greet_screen(Snapshot, NextUpdate.key, f)} :
          /\ GateCommit(R, Event("greet_screen", NextUpdate.key, NoMsg, R), Tail(updates))
          /\ handler' = IF R.ret \/ R.exc THEN NoHandler
                        ELSE [op |-> "greet", key |-> NextUpdate.key,
                              pc |-> "restrict", msg |-> 0]
    /\ verified' = StillVerified(chat_member, chat_member')
    /\ UNCHANGED <<handled, jobs, job, chat_messages, next_message_id>>

\* greet_new_member: the restriction
GreetRestrict(f) ==
    /\ handler.op = "greet"
    /\ handler.pc = "restrict"
    /\ FaultAllowed(f)
    /\ \E R \in {restrict_chat_member(
                    Snapshot, handler.key,
                    Restricted(join_permissions(welcome_captcha_enabled[handler.key[1]])),
                    f)} :
          /\ GateCommit(R, Event("greet_restrict", handler.key, NoMsg, R), updates)
          /\ handler' = IF R.exc THEN NoHandler ELSE [handler EXCEPT !.pc = "challenge"]
    /\ verified' = StillVerified(chat_member, chat_member')
    /\ UNCHANGED <<handled, jobs, job, chat_messages, next_message_id>>

\* greet_new_member: the welcome or captcha message and the job
GreetChallenge(f) ==
    LET k == handler.key
        is_captcha_enabled == welcome_captcha_enabled[k[1]]
        message_text == is_captcha_enabled \/ welcome_text[k[1]]
        kind == IF is_captcha_enabled THEN "kick" ELSE "lift"
        sent == message_text /\ f # "send"
        S1 == IF message_text THEN Call(Snapshot, "send_message", f # "send", next_message_id)
              ELSE Snapshot
    IN /\ handler.op = "greet"
       /\ handler.pc = "challenge"
       /\ FaultAllowed(f)
       /\ GateCommit(S1, Event("greet_challenge", k, NoMsg, S1), updates)
       /\ handler' = NoHandler
       /\ chat_messages' = IF sent
                           THEN chat_messages \cup
                                {[id |-> next_message_id, room |-> k[1], user |-> k[2],
                                  button |-> is_captcha_enabled]}
                           ELSE chat_messages
       /\ next_message_id' = IF sent THEN next_message_id + 1 ELSE next_message_id
       /\ jobs' = IF sent
                  THEN remove_jobs_by_name(jobs, kind, k) \cup
                       {[kind |-> kind, key |-> k, msg |-> next_message_id]}
                  ELSE jobs
       /\ UNCHANGED <<handled, job, verified>>

\* verify_member_callback for a press of somebody else: an alert, no more
VerifyRefuse ==
    /\ CanDeliver
    /\ NextUpdate.kind = "press"
    /\ ~is_clicker_target(NextUpdate.key[2], NextUpdate.target)
    /\ GateCommit(Call(Snapshot, "answer_alert", TRUE, 0),
                  Event("verify_refuse", NextUpdate.key, NoMsg,
                        Call(Snapshot, "answer_alert", TRUE, 0)),
                  Tail(updates))
    /\ UNCHANGED <<handled, jobs, job, handler, chat_messages, next_message_id, verified>>

\* verify_member_callback for a press of the user named in the button: the
\* clicker's restriction is lifted
VerifyRestrict(f, lifted) ==
    LET k == NextUpdate.key
    IN /\ CanDeliver
       /\ NextUpdate.kind = "press"
       /\ is_clicker_target(NextUpdate.key[2], NextUpdate.target)
       /\ FaultAllowed(f)
       /\ \E R \in {restrict_chat_member(Snapshot, k, lifted, f)} :
             /\ GateCommit(R, Event("verify_restrict", k, NoMsg, R), Tail(updates))
             /\ handler' = IF R.exc THEN NoHandler
                           ELSE [op |-> "verify", key |-> k, pc |-> "finish",
                                 msg |-> NextUpdate.msg]
             /\ verified' = IF R.exc THEN verified ELSE verified \cup {k}
       /\ UNCHANGED <<handled, jobs, job, chat_messages, next_message_id>>

\* verify_member_callback: the kick job is removed and the button taken off
VerifyFinish(f) ==
    LET k == handler.key
        there == \E m \in chat_messages : m.id = handler.msg
        edited == there /\ f # "send"
        S1 == Call(Snapshot, "edit_message_text", edited, handler.msg)
    IN /\ handler.op = "verify"
       /\ handler.pc = "finish"
       /\ FaultAllowed(f)
       /\ GateCommit(S1, Event("verify_finish", k, NoMsg, S1), updates)
       /\ handler' = NoHandler
       /\ jobs' = remove_jobs_by_name(jobs, "kick", k)
       /\ chat_messages' = IF edited
                           THEN {IF m.id = handler.msg THEN [m EXCEPT !.button = FALSE]
                                 ELSE m : m \in chat_messages}
                           ELSE chat_messages
       /\ UNCHANGED <<handled, job, next_message_id, verified>>

\* a job of the queue fires and reads the member from the platform
JobFire(j) ==
    /\ job = NoJob
    /\ j \in jobs
    /\ jobs' = jobs \ {j}
    /\ job' = [kind |-> j.kind, key |-> j.key, msg |-> j.msg, pc |-> "read",
               member |-> chat_member[j.key]]
    /\ GateCommit(Call(Snapshot, "get_chat_member", TRUE, 0),
                  Event("job_fire", j.key, NoMsg, Call(Snapshot, "get_chat_member", TRUE, 0)),
                  updates)
    /\ UNCHANGED <<handled, handler, chat_messages, next_message_id, verified>>

\* context.bot.delete_message of a welcome message
without_message(id) == {m \in chat_messages : m.id # id}

\* kick_unverified_member after the read: a member who is not awaiting the
\* captcha is left alone and the message cleaned up; any other is banned and
\* the cached messages are purged
KickAct(f) ==
    LET k == job.key
        kick == still_unverified(job.member)
        R == IF ~kick THEN Call(Snapshot, "delete_message", TRUE, job.msg)
             ELSE IF f = "ban" THEN Raise(BanFailed(Snapshot))
             ELSE delete_cached_messages(Banned(Snapshot, k), k, f)
    IN /\ job.kind = "kick"
       /\ job.pc = "read"
       /\ FaultAllowed(f)
       /\ GateCommit(R, Event("kick_act", k, NoMsg, R), updates)
       /\ job' = IF ~kick \/ R.exc THEN NoJob ELSE [job EXCEPT !.pc = "banned"]
       /\ chat_messages' = IF ~kick THEN without_message(job.msg) ELSE chat_messages
       /\ verified' = StillVerified(chat_member, chat_member')
       /\ UNCHANGED <<handled, jobs, handler, next_message_id>>

\* kick_unverified_member: the unban that turns the ban into a kick
KickUnban(f) ==
    LET k == job.key
        R == IF f = "unban" THEN Raise(Call(Snapshot, "unban_chat_member", FALSE, 0))
             ELSE [Call(Snapshot, "unban_chat_member", TRUE, 0) EXCEPT !.mem[k] = M_left]
    IN /\ job.kind = "kick"
       /\ job.pc = "banned"
       /\ FaultAllowed(f)
       /\ GateCommit(R, Event("kick_unban", k, NoMsg, R), updates)
       /\ job' = IF R.exc THEN NoJob ELSE [job EXCEPT !.pc = "unbanned"]
       /\ verified' = StillVerified(chat_member, chat_member')
       /\ UNCHANGED <<handled, jobs, handler, chat_messages, next_message_id>>

\* kick_unverified_member: the captcha message is deleted
KickClean ==
    /\ job.kind = "kick"
    /\ job.pc = "unbanned"
    /\ GateCommit(Call(Snapshot, "delete_message", TRUE, job.msg),
                  Event("kick_clean", job.key, NoMsg,
                        Call(Snapshot, "delete_message", TRUE, job.msg)),
                  updates)
    /\ job' = NoJob
    /\ chat_messages' = without_message(job.msg)
    /\ UNCHANGED <<handled, jobs, handler, next_message_id, verified>>

\* lift_media_restriction_job after the read
LiftAct(f, lifted) ==
    LET k == job.key
        lift == job.member.status = "restricted" /\ ~job.member.can_send_photos
        R == IF lift THEN restrict_chat_member(Snapshot, k, lifted, f) ELSE Snapshot
    IN /\ job.kind = "lift"
       /\ job.pc = "read"
       /\ FaultAllowed(f)
       /\ GateCommit([R EXCEPT !.exc = FALSE], Event("lift_act", k, NoMsg, R), updates)
       /\ job' = NoJob
       /\ verified' = StillVerified(chat_member, chat_member')
       /\ UNCHANGED <<handled, jobs, handler, chat_messages, next_message_id>>

\* A user who has been in the room before, with two messages still cached,
\* and who may be on the room's whitelist, is about to join; a bystander is
\* a member.
InitGate ==
    /\ DbIdle
    /\ now = 0
    /\ ticks = 0
    /\ handled = 0
    /\ faults = 0
    /\ user_moderation_tracker = [k \in Keys |-> EmptyEntry]
    /\ tracker_order = << >>
    /\ bot_message_cache = [r \in Rooms |-> << >>]
    /\ user_message_id_cache = [k \in Keys |-> IF k = Joiner THEN 2 ELSE 0]
    /\ chat_member = [k \in Keys |-> IF k = Joiner THEN M_left ELSE M_member]
    /\ banned_users \in {{}, {Joiner[2]}}
    /\ whitelisted_users \in {{}, {Joiner}}
    /\ delete_links_enabled \in [Rooms -> BOOLEAN]
    /\ repeated = T_hi
    /\ welcome_captcha_enabled \in [Rooms -> BOOLEAN]
    /\ welcome_text \in [Rooms -> BOOLEAN]
    /\ \E b \in Bios : bios = [u \in Users |-> IF u = Joiner[2] THEN b ELSE T_hi]
    /\ bio_check_cache = [u \in Users |-> NoCheck]
    /\ jobs = {}
    /\ job = NoJob
    /\ handler = NoHandler
    /\ updates = << >>
    /\ chat_messages = {}
    /\ next_message_id = 1
    /\ verified = {}
    /\ ev = Idle("init", <<0, 0>>)

NextGate ==
    \/ Join(Joiner)
    \/ Leave(Joiner)
    \/ \E u \in Users, m \in chat_messages : Press(u, m)
    \/ DeliverLeft
    \/ DeliverOther
    \/ \E f \in {"none", "ban", "send", "lookup", "noperm", "restrict"} : GreetScreen(f)
    \/ \E f \in {"none", "restrict"} : GreetRestrict(f)
    \/ \E f \in {"none", "send"} : GreetChallenge(f)
    \/ VerifyRefuse
    \/ \E f \in {"none", "restrict"}, lifted \in LiftOutcomes : VerifyRestrict(f, lifted)
    \/ \E f \in {"none", "send"} : VerifyFinish(f)
    \/ \E j \in jobs : JobFire(j)
    \/ \E f \in {"none", "ban"} : KickAct(f)
    \/ \E f \in {"none", "unban"} : KickUnban(f)
    \/ KickClean
    \/ \E f \in {"none", "restrict"}, lifted \in LiftOutcomes : LiftAct(f, lifted)

SpecGate == InitGate /\ [][NextGate]_vars

\* a message of the joining user reaches check_user_message between two
\* member updates; the dispatcher runs one handler at a time
GateMessage(k, msg, f) ==
    /\ handler = NoHandler
    /\ CanSend(k)
    /\ handled < MaxGateEvents
    /\ FaultAllowed(f)
    /\ \E R \in {check_user_message(Snapshot, k, msg, f)} :
          /\ Commit(R, Event("message", k, msg, R))
          /\ updates' = updates \o Emitted(chat_member, R.mem)
          /\ verified' = StillVerified(chat_member, R.mem)
    /\ UNCHANGED <<now, whitelisted_users, delete_links_enabled, ticks, repeated,
                   welcome_captcha_enabled, welcome_text, bios, jobs, job, handler,
                   chat_messages, next_message_id>>

\* joins and messages of a user who may carry a global ban
SpecReban ==
    InitGate /\ [][\/ NextGate
                  \/ \E f \in {"none", "ban", "purge"} :
                        GateMessage(Joiner, Msg(T_caps, "none", FALSE), f)]_vars

\* ------------------------------------------------------------------------
\* Joins of a user whose names are screened
\* ------------------------------------------------------------------------
\* a user joins; the platform queues the chat-member update and the
\* new-member service message, in either order
NickJoin(k) ==
    LET mu == [kind |-> "member", key |-> k, old |-> "left", new |-> "member",
               target |-> 0, msg |-> 0]
        su == [kind |-> "service", key |-> k, old |-> "", new |-> "",
               target |-> 0, msg |-> 0]
    IN /\ chat_member[k].status = "left"
       /\ handled < MaxGateEvents
       /\ handled' = handled + 1
       /\ chat_member' = [chat_member EXCEPT ![k] = M_member]
       /\ \E q \in {<<mu, su>>, <<su, mu>>} : updates' = updates \o q
       /\ ev' = Idle("join", k)
       /\ UNCHANGED <<now, ticks, user_moderation_tracker, tracker_order,
                      bot_message_cache, user_message_id_cache, banned_users,
                      whitelisted_users, delete_links_enabled, faults, repeated,
                      welcome_captcha_enabled, welcome_text, bios, bio_check_cache,
                      jobs, job, handler, chat_messages, next_message_id, verified>>
       /\ UNCHANGED db_vars

\* the new-member service message reaches check_username_update
ServiceMessage(f) ==
    /\ CanDeliver
    /\ NextUpdate.kind = "service"
    /\ FaultAllowed(f)
    /\ \E R \in {check_username_update(Snapshot, NextUpdate.key, f)} :
          GateCommit(R, Event("username_update", NextUpdate.key, NoMsg, R), Tail(updates))
    /\ verified' = StillVerified(chat_member, chat_member')
    /\ UNCHANGED <<handled, jobs, job, handler, chat_messages, next_message_id>>

\* the names a joining user may carry: clean, or with the text "X \n y" as
\* username, first name or last name
NameSets ==
    {<<T_empty, T_hi, T_empty>>, <<T_word, T_hi, T_empty>>,
     <<T_empty, T_word, T_empty>>, <<T_empty, T_hi, T_word>>}

\* A user with a clean bio is about to join a room; nickname words may be
\* stored under the room's id and under the global id.
InitNick ==
    /\ now = 0
    /\ ticks = 0
    /\ handled = 0
    /\ faults = 0
    /\ user_moderation_tracker = [k \in Keys |-> EmptyEntry]
    /\ tracker_order = << >>
    /\ bot_message_cache = [r \in Rooms |-> << >>]
    /\ user_message_id_cache = [k \in Keys |-> IF k = Joiner THEN 2 ELSE 0]
    /\ chat_member = [k \in Keys |-> IF k = Joiner THEN M_left ELSE M_member]
    /\ banned_users = {}
    /\ whitelisted_users = {}
    /\ delete_links_enabled = [r \in Rooms |-> FALSE]
    /\ repeated = T_hi
    /\ welcome_captcha_enabled \in [Rooms -> BOOLEAN]
    /\ welcome_text = [r \in Rooms |-> TRUE]
    /\ bios = [u \in Users |-> T_hi]
    /\ bio_check_cache = [u \in Users |-> NoCheck]
    /\ jobs = {}
    /\ job = NoJob
    /\ handler = NoHandler
    /\ updates = << >>
    /\ chat_messages = {}
    /\ next_message_id = 1
    /\ verified = {}
    /\ unbanned_rows = {}
    /\ profile_checks = {}
    /\ inactive_chats = {}
    /\ ban_proposals = [r \in RequestIds |-> NoProposal]
    /\ rule_rows = {}
    /\ profile_photos = [u \in Users |-> NoPhoto]
    /\ avatar_check_cache = [u \in Users |-> NoCheck]
    /\ user_avatar_phash_cache = {}
    /\ running = {}
    /\ ban_nickname_words \in
          SUBSET ((Rooms \cup {GLOBAL_CHAT_ID}) \X {NickWordOrder[1], NickWordOrder[2]})
    /\ \E n \in NameSets :
          names = [u \in Users |-> IF u = Joiner[2] THEN n ELSE <<T_empty, T_hi, T_empty>>]
    /\ ev = Idle("init", <<0, 0>>)

NextNick ==
    \/ NickJoin(Joiner)
    \/ DeliverLeft
    \/ DeliverOther
    \/ \E f \in {"none", "ban", "send", "lookup", "purge"} : GreetScreen(f)
    \/ \E f \in {"none", "restrict"} : GreetRestrict(f)
    \/ \E f \in {"none", "send"} : GreetChallenge(f)
    \/ \E f \in {"none", "ban", "send", "lookup", "delete", "purge"} : ServiceMessage(f)

SpecNick == InitNick /\ [][NextNick]_vars

\* ------------------------------------------------------------------------
\* The global-ban registry under the administrators' commands
\* ------------------------------------------------------------------------
MaxRegistryOps == 4

\* handlers/admin_handlers.py ban_user (/ban): the command message is
\* deleted, the record stored, and only then the user banned from the room
admin_ban_user(S, k, f) ==
    LET S1 == Call(Call(S, "get_chat_member", TRUE, 0), "delete_message", TRUE, 0)
        S2 == db_ban_user(S1, k[2])
        banned == Call(Call(delete_cached_messages(Banned(S2, k), k, f),
                            "send_ban_notice", TRUE, 0),
                       "propose_automated_rule", TRUE, 0)
    IN IF is_chat_admin(S, k) THEN Call(Call(S, "get_chat_member", TRUE, 0), "reply_refused", TRUE, 0)
       ELSE IF k[2] \in S1.gb \/ k[2] \notin S2.gb
       THEN Call(S2, "reply_already_banned", TRUE, 0)
       ELSE IF f = "ban" THEN Call(BanFailed(S2), "reply_ban_failed", TRUE, 0)
       ELSE banned

\* an administrator's /ban of the user
AdminBan(k, f) ==
    /\ handled < MaxRegistryOps
    /\ FaultAllowed(f)
    /\ \E R \in {admin_ban_user(Snapshot, k, f)} :
          Commit(R, Event("admin_ban", k, NoMsg, R))
    /\ UNCHANGED <<now, whitelisted_users, delete_links_enabled, ticks, repeated>>
    /\ UNCHANGED gate_vars

\* utils/database.py Database.unban_user and handlers/admin_handlers.py
\* unban_user (/unban): UPDATE ... SET is_active = 0 WHERE user_id = ? AND
\* is_active = 1; when a row changed the user is unbanned in the room, which
\* also removes a user who is in it
AdminUnban(k, f) ==
    LET found == k[2] \in banned_users
        S1 == Call(Snapshot, "db_unban_user", found, 0)
        R == IF ~found THEN Call(S1, "reply_not_banned", TRUE, 0)
             ELSE IF f = "unban"
             THEN Call(Call(S1, "unban_chat_member", FALSE, 0), "reply_unban_failed", TRUE, 0)
             ELSE Call([Call(S1, "unban_chat_member", TRUE, 0) EXCEPT !.mem[k] = M_left],
                       "send_unban_notice", TRUE, 0)
    IN /\ handled < MaxRegistryOps
       /\ FaultAllowed(f)
       /\ handled' = handled + 1
       /\ faults' = IF f = "unban" /\ found THEN faults + 1 ELSE faults
       /\ banned_users' = banned_users \ {k[2]}
       /\ unbanned_rows' = IF found THEN unbanned_rows \cup {k[2]} ELSE unbanned_rows
       /\ chat_member' = R.mem
       /\ ev' = Event("admin_unban", k, NoMsg, R)
       /\ UNCHANGED <<now, ticks, user_moderation_tracker, tracker_order,
                      bot_message_cache, user_message_id_cache, whitelisted_users,
                      delete_links_enabled, repeated, bio_check_cache,
                      ban_nickname_words, names, profile_checks, inactive_chats,
                      ban_proposals, rule_rows, profile_photos, avatar_check_cache,
                      user_avatar_phash_cache, running>>
       /\ UNCHANGED gate_vars

\* a user comes back into the room by the invite link of /unban
Rejoin(k) ==
    /\ chat_member[k].status = "left"
    /\ chat_member' = [chat_member EXCEPT ![k] = M_member]
    /\ ev' = Idle("join", k)
    /\ UNCHANGED <<now, user_moderation_tracker, tracker_order, bot_message_cache,
                   user_message_id_cache, banned_users, whitelisted_users,
                   delete_links_enabled, ticks, handled, faults, repeated,
                   bio_check_cache>>
    /\ UNCHANGED db_vars
    /\ UNCHANGED gate_vars

NextRegistry ==
    \/ \E u \in Users, f \in {"none", "ban"} : AdminBan(<<Sender[1], u>>, f)
    \/ \E u \in Users, f \in {"none", "unban"} : AdminUnban(<<Sender[1], u>>, f)
    \/ \E u \in Users : Rejoin(<<Sender[1], u>>)
    \/ \E f \in {"none", "ban"} :
          /\ handled < MaxRegistryOps
          /\ FaultAllowed(f)
          /\ Message(Sender, Msg(T_word, "none", FALSE), f)

\* the records start as in the content specification: the sender may carry
\* an active record
SpecRegistry == InitContent /\ [][NextRegistry]_vars

\* ------------------------------------------------------------------------
\* The periodic rescan of unchecked profiles
\* ------------------------------------------------------------------------
MaxPasses == 2

\* the rows of known_members with is_member = 1: every user of the model
\* and every global administrator, in each room
KnownUsers == Users \cup {ADMIN_IDS[i] : i \in 1..Len(ADMIN_IDS)}

\* the SELECT of get_unchecked_known_members has no ORDER BY
MemberOrders ==
    {o \in [1..Cardinality(KnownUsers) -> KnownUsers] :
        \A i, j \in DOMAIN o : o[i] = o[j] => i = j}

\* utils/database.py get_unchecked_known_members(chat_id, only_active_chat=True)
get_unchecked_known_members(chat_id, order) ==
    IF chat_id \in inactive_chats THEN << >>
    ELSE SelectSeq(order, LAMBDA u : <<chat_id, u>> \notin profile_checks)

\* handlers/admin_handlers.py scheduled_name_check, the loop over the
\* unchecked members of one room: global administrators are marked without
\* screening, everybody else is screened (bio, then names) and marked
RECURSIVE name_check_loop(_, _, _, _)
name_check_loop(P, chat_id, members, f) ==
    IF members = << >> THEN P
    ELSE LET user_id == Head(members)
             k == <<chat_id, user_id>>
             B == check_user_bio(Call(P.S, "check_user_bio", TRUE, user_id), k, FALSE, f)
             N == IF B.ret THEN B ELSE check_names(B, k, names_to_check(user_id), FALSE, f)
         IN IF InSeq(ADMIN_IDS, user_id)
            THEN name_check_loop(
                     [S |-> Call(P.S, "mark_user_profile_checked", TRUE, user_id),
                      pc |-> P.pc \cup {k}], chat_id, Tail(members), f)
            ELSE name_check_loop(
                     [S |-> Call(N, "mark_user_profile_checked", TRUE, user_id),
                      pc |-> P.pc \cup {k}], chat_id, Tail(members), f)

\* handlers/admin_handlers.py scheduled_name_check for one room.  rights is
\* the outcome of the look at the bot's own membership: "ok", "missing"
\* (no restrict right), "not_found" (the bot left the room) or "error".
scheduled_name_check(S, chat_id, order, rights, f) ==
    LET S1 == Call(Call(S, "get_me", TRUE, 0), "get_bot_member",
                   rights \in {"ok", "missing"}, 0)
        unchecked_members == get_unchecked_known_members(chat_id, order)
        P0 == [S |-> S1, pc |-> profile_checks]
        skipped == [P0 EXCEPT !.S.acted = "skipped"]
    IN IF rights # "ok" \/ unchecked_members = << >> THEN skipped
       ELSE name_check_loop([P0 EXCEPT !.S.acted = "scanned"],
                            chat_id, unchecked_members, f)

\* one run of the periodic job
Rescan(chat_id, order, rights, f) ==
    /\ handled < MaxPasses
    /\ FaultAllowed(f)
    /\ rights \in {"ok", "missing"} \/ (f = "none" /\ faults < MaxFaults)
    /\ \E P \in {scheduled_name_check(Snapshot, chat_id, order, rights, f)} :
          /\ profile_checks' = P.pc
          /\ inactive_chats' = IF rights = "not_found"
                               THEN inactive_chats \cup {chat_id} ELSE inactive_chats
          /\ user_message_id_cache' = P.S.ids
          /\ chat_member' = P.S.mem
          /\ banned_users' = P.S.gb
          /\ bio_check_cache' = P.S.bcc
          /\ faults' = IF PlatformFailed(P.S.calls) THEN faults + 1 ELSE faults
          /\ ev' = Event("rescan", <<chat_id, 0>>, NoMsg, P.S)
    /\ handled' = handled + 1
    /\ UNCHANGED <<now, ticks, user_moderation_tracker, tracker_order,
                   bot_message_cache, whitelisted_users, delete_links_enabled,
                   repeated, ban_nickname_words, names, unbanned_rows,
                   ban_proposals, rule_rows, profile_photos, avatar_check_cache,
                   user_avatar_phash_cache, running>>
    /\ UNCHANGED gate_vars

\* Two users are in the room, one of them possibly a room administrator;
\* nickname rules, names and earlier marks vary.  The bio of a user may
\* have been checked just before, on a join or on a message.
InitRescan ==
    /\ now = 0
    /\ ticks = 0
    /\ handled = 0
    /\ faults = 0
    /\ user_moderation_tracker = [k \in Keys |-> EmptyEntry]
    /\ tracker_order = << >>
    /\ bot_message_cache = [r \in Rooms |-> << >>]
    /\ user_message_id_cache = [k \in Keys |-> 0]
    /\ \E m \in {M_member, M_admin} :
          chat_member = [k \in Keys |-> IF k = Joiner THEN m ELSE M_member]
    /\ banned_users = {}
    /\ whitelisted_users = {}
    /\ delete_links_enabled = [r \in Rooms |-> FALSE]
    /\ repeated = T_hi
    /\ welcome_captcha_enabled = [r \in Rooms |-> FALSE]
    /\ welcome_text = [r \in Rooms |-> TRUE]
    /\ bios = [u \in Users |-> T_hi]
    /\ bio_check_cache \in [Users -> {NoCheck, 0}]
    /\ jobs = {}
    /\ job = NoJob
    /\ handler = NoHandler
    /\ updates = << >>
    /\ chat_messages = {}
    /\ next_message_id = 1
    /\ verified = {}
    /\ unbanned_rows = {}
    /\ profile_checks \in SUBSET (Rooms \X KnownUsers)
    /\ inactive_chats = {}
    /\ ban_proposals = [r \in RequestIds |-> NoProposal]
    /\ rule_rows = {}
    /\ profile_photos = [u \in Users |-> NoPhoto]
    /\ avatar_check_cache = [u \in Users |-> NoCheck]
    /\ user_avatar_phash_cache = {}
    /\ running = {}
    /\ ban_nickname_words \in SUBSET (Rooms \X {NickWordOrder[2]})
    /\ \E n \in NameSets :
          names = [u \in Users |-> IF u = Joiner[2] THEN n ELSE <<T_empty, T_hi, T_empty>>]
    /\ ev = Idle("init", <<0, 0>>)

NextRescan ==
    \E chat_id \in Rooms, order \in MemberOrders,
       rights \in {"ok", "missing", "not_found", "error"},
       f \in {"none", "ban", "send"} : Rescan(chat_id, order, rights, f)

SpecRescan == InitRescan /\ [][NextRescan]_vars

\* ------------------------------------------------------------------------
\* The rule proposals that follow a manual ban
\* ------------------------------------------------------------------------
MaxCallbacks == 3

\* the buttons of a proposal, as the prefix of callback_data with the
\* request id cut off; "other" is data that matches no branch
RuleActions ==
    {"skip", "add_word", "add_name_first", "add_name_first_global",
     "add_name_last", "add_name_last_global", "add_bio", "add_bio_global", "other"}

\* is_global = "_global_" in callback_data
is_global(action) ==
    action \in {"add_name_first_global", "add_name_last_global", "add_bio_global"}

\* text_to_ban = proposal.get(...): a field the proposal lacks reads None
text_to_ban(proposal, action) ==
    CASE action = "add_word" -> proposal.text
      [] action \in {"add_name_first", "add_name_first_global"} -> proposal.first_name
      [] action \in {"add_name_last", "add_name_last_global"} -> proposal.last_name
      [] action \in {"add_bio", "add_bio_global"} -> proposal.bio
      [] OTHER -> << >>

\* the table a branch of auto_rule_callback writes
rule_table(action) ==
    CASE action = "add_word" -> "ban_words"
      [] action \in {"add_bio", "add_bio_global"} -> "ban_bio_words"
      [] action \in {"add_name_first", "add_name_first_global",
                     "add_name_last", "add_name_last_global"} -> "ban_nickname_words"
      [] OTHER -> "none"

\* the branches of auto_rule_callback up to the edit of the message:
\* db.add_ban_word, db.add_ban_nickname_word, db.add_ban_bio_word
\* (INSERT OR IGNORE, True when a row was written)
apply_rule(D, proposal, action) ==
    LET text == text_to_ban(proposal, action)
        target_chat_id == IF is_global(action) THEN GLOBAL_CHAT_ID ELSE proposal.chat_id
        word == normalize_text(text)
        table == rule_table(action)
        fresh == IF table = "ban_nickname_words"
                 THEN <<target_chat_id, word>> \notin D.nick
                 ELSE <<table, target_chat_id, word>> \notin D.rows
    IN IF table = "none" \/ text = << >> THEN D
       ELSE IF table = "ban_nickname_words"
       THEN [D EXCEPT !.nick = @ \cup {<<target_chat_id, word>>},
                      !.S = Call(@, "db_add_rule", fresh, 0)]
       ELSE [D EXCEPT !.rows = @ \cup {<<table, target_chat_id, word>>},
                      !.S = Call(@, "db_add_rule", fresh, 0)]

\* a faulty variant of auto_rule_callback: the proposal is looked up but
\* the presser is not compared with the proposing administrator
auto_rule_callback_anyone(D, request_id, action, from_user, f) ==
    LET answered == [D EXCEPT !.S = Call([@ EXCEPT !.acted = action], "answer", f # "answer", 0)]
        proposal == D.bp[request_id]
        applied == apply_rule(answered, proposal, action)
    IN IF f = "answer" THEN [answered EXCEPT !.S = Raise(@)]
       ELSE IF proposal = NoProposal
       THEN [answered EXCEPT !.S = IF f = "edit"
                                   THEN Raise(Call(@, "edit_message_text", FALSE, 0))
                                   ELSE Call(@, "edit_message_text", TRUE, 0)]
       ELSE IF f = "edit"
       THEN [applied EXCEPT !.S = Raise(Call(@, "edit_message_text", FALSE, 1))]
       ELSE [applied EXCEPT !.S = Call(@, "edit_message_text", TRUE, 1),
                            !.bp[request_id] = NoProposal]

\* handlers/admin_handlers.py auto_rule_callback.  The edits of the message
\* are not guarded: when one raises, the handler ends there, before the
\* final pop of the proposal.  The n of edit_message_text is 0 for the
\* "not for you or expired" notice and 1 for the result of a branch.
auto_rule_callback(D, request_id, action, from_user, f) ==
    LET answered == [D EXCEPT !.S = Call([@ EXCEPT !.acted = action], "answer", f # "answer", 0)]
        proposal == D.bp[request_id]
        applied == apply_rule(answered, proposal, action)
    IN IF f = "answer" THEN [answered EXCEPT !.S = Raise(@)]
       ELSE IF proposal = NoProposal \/ proposal.admin_id # from_user
       THEN [answered EXCEPT !.S = IF f = "edit"
                                   THEN Raise(Call(@, "edit_message_text", FALSE, 0))
                                   ELSE Call(@, "edit_message_text", TRUE, 0)]
       ELSE IF f = "edit"
       THEN [applied EXCEPT !.S = Raise(Call(@, "edit_message_text", FALSE, 1))]
       ELSE [applied EXCEPT !.S = Call(@, "edit_message_text", TRUE, 1),
                            !.bp[request_id] = NoProposal]

\* a button of a proposal is pressed
RuleCallback(request_id, action, from_user, f) ==
    /\ handled < MaxCallbacks
    /\ FaultAllowed(f)
    /\ handled' = handled + 1
    /\ \E D \in {auto_rule_callback([S |-> Snapshot, bp |-> ban_proposals,
                                      nick |-> ban_nickname_words, rows |-> rule_rows],
                                     request_id, action, from_user, f)} :
          /\ ban_proposals' = D.bp
          /\ ban_nickname_words' = D.nick
          /\ rule_rows' = D.rows
          /\ faults' = IF PlatformFailed(D.S.calls) THEN faults + 1 ELSE faults
          /\ ev' = Event("auto_rule", <<request_id, from_user>>, NoMsg, D.S)
    /\ UNCHANGED <<now, ticks, user_moderation_tracker, tracker_order,
                   bot_message_cache, user_message_id_cache, chat_member,
                   banned_users, whitelisted_users, delete_links_enabled, repeated,
                   bio_check_cache, names, unbanned_rows, profile_checks,
                   inactive_chats, profile_photos, avatar_check_cache,
                   user_avatar_phash_cache, running>>
    /\ UNCHANGED gate_vars

\* the proposals propose_automated_rule stores after a /ban of the first
\* administrator: for a replied-to message or for a profile
StoredProposals ==
    {[type |-> "message", chat_id |-> 1, admin_id |-> ADMIN_IDS[1], text |-> T_word,
      first_name |-> << >>, last_name |-> << >>, bio |-> << >>]}
    \cup {[type |-> "profile", chat_id |-> 1, admin_id |-> ADMIN_IDS[1], text |-> << >>,
           first_name |-> T_word, last_name |-> l, bio |-> b] :
              l \in {<< >>, <<"y">>}, b \in {<< >>, T_hi}}

\* request 1 holds a proposal, request 2 holds none
InitProposal ==
    /\ now = 0
    /\ ticks = 0
    /\ handled = 0
    /\ faults = 0
    /\ user_moderation_tracker = [k \in Keys |-> EmptyEntry]
    /\ tracker_order = << >>
    /\ bot_message_cache = [r \in Rooms |-> << >>]
    /\ user_message_id_cache = [k \in Keys |-> 0]
    /\ chat_member = [k \in Keys |-> M_member]
    /\ banned_users = {}
    /\ whitelisted_users = {}
    /\ delete_links_enabled = [r \in Rooms |-> FALSE]
    /\ repeated = T_hi
    /\ welcome_captcha_enabled = [r \in Rooms |-> FALSE]
    /\ welcome_text = [r \in Rooms |-> FALSE]
    /\ bios = [u \in Users |-> << >>]
    /\ bio_check_cache = [u \in Users |-> NoCheck]
    /\ jobs = {}
    /\ job = NoJob
    /\ handler = NoHandler
    /\ updates = << >>
    /\ chat_messages = {}
    /\ next_message_id = 1
    /\ verified = {}
    /\ ban_nickname_words = {}
    /\ names = [u \in Users |-> <<T_empty, T_hi, T_empty>>]
    /\ unbanned_rows = {}
    /\ profile_checks = {}
    /\ inactive_chats = {}
    /\ rule_rows = {}
    /\ profile_photos = [u \in Users |-> NoPhoto]
    /\ avatar_check_cache = [u \in Users |-> NoCheck]
    /\ user_avatar_phash_cache = {}
    /\ running = {}
    /\ \E p \in StoredProposals :
          ban_proposals = [r \in RequestIds |-> IF r = 1 THEN p ELSE NoProposal]
    /\ ev = Idle("init", <<0, 0>>)

NextProposal ==
    \E request_id \in RequestIds, action \in RuleActions,
       from_user \in {ADMIN_IDS[1], Sender[2]}, f \in {"none", "answer", "edit"} :
          RuleCallback(request_id, action, from_user, f)

SpecProposal == InitProposal /\ [][NextProposal]_vars

\* ------------------------------------------------------------------------
\* The avatar check
\* ------------------------------------------------------------------------
AVATAR_HASH_THRESHOLD == 5
AVATAR_CHECK_COOLDOWN == 300
MaxAvatarChecks == 3

\* a perceptual hash is a row of bits; an image that cannot be decoded has
\* no pixels to hash
HashBits == 8
NoHash == << >>
Corrupt == [decodable |-> FALSE, pixels |-> << >>]
ZeroHash == [i \in 1..HashBits |-> 0]
NearHash == [i \in 1..HashBits |-> IF i = 1 THEN 1 ELSE 0]
FarHash == [i \in 1..HashBits |-> 1]

\* table banned_avatars: the banned file ids and the banned hashes
BannedAvatarIds == {"banned"}
BannedAvatarHashes == <<ZeroHash>>

\* a faulty variant of calculate_phash: an image that cannot be decoded
\* hashes to the zero hash
calculate_phash_zero(image) == IF image.decodable THEN image.pixels ELSE ZeroHash

\* utils/image_utils.py calculate_phash: the hash of the image, None when
\* Image.open or the hashing raises
calculate_phash(image) == IF image.decodable THEN image.pixels ELSE NoHash

\* hash1 - hash2: the number of differing bits
HashDistance(h1, h2) == Cardinality({i \in 1..HashBits : h1[i] # h2[i]})

\* utils/image_utils.py compare_phashes
compare_phashes(hash1, hash2, threshold) ==
    IF hash1 = NoHash \/ hash2 = NoHash THEN FALSE
    ELSE HashDistance(hash1, hash2) <= threshold

\* handlers/member_handlers.py check_user_avatar.  A is the record of the
\* snapshot S and the two caches acc (avatar_check_cache) and uapc
\* (user_avatar_phash_cache).
check_user_avatar(A, k, has_message, f) ==
    LET user == k[2]
        last_check == A.acc[user]
        A1 == [A EXCEPT !.acc[user] = now,
                        !.S = Call(@, "get_user_profile_photos", f # "photos", 0)]
        photo == profile_photos[user]
        current_avatar_id == photo.file_unique_id
        cached == {p \in A1.uapc : p[1] = current_avatar_id}
        downloaded == [A1 EXCEPT !.S = Call(@, "download", f # "download", 0)]
        computed == calculate_phash(photo.image)
        A2 == IF cached # {} THEN A1
              ELSE IF computed # NoHash
              THEN [downloaded EXCEPT !.uapc = @ \cup {<<current_avatar_id, computed>>}]
              ELSE downloaded
        current_phash == IF cached # {} THEN (CHOOSE p \in cached : TRUE)[2] ELSE computed
        similar == \E i \in 1..Len(BannedAvatarHashes) :
                      compare_phashes(current_phash, BannedAvatarHashes[i],
                                      AVATAR_HASH_THRESHOLD)
        strike(X) == [X EXCEPT !.S = ban_for_profile_violation(
                                         IF has_message
                                         THEN Call(@, "delete_message", f # "delete", 0)
                                         ELSE @, k, f)]
    IN IF last_check # NoCheck /\ now - last_check < AVATAR_CHECK_COOLDOWN
       THEN [A EXCEPT !.S = Return(@, FALSE)]
       ELSE IF f = "photos" \/ photo = NoPhoto THEN [A1 EXCEPT !.S = Return(@, FALSE)]
       ELSE IF current_avatar_id \in BannedAvatarIds THEN strike(A1)
       ELSE IF cached = {} /\ f = "download" THEN [downloaded EXCEPT !.S = Return(@, FALSE)]
       ELSE IF current_phash = NoHash THEN [A2 EXCEPT !.S = Return(@, FALSE)]
       ELSE IF similar THEN strike(A2)
       ELSE [A2 EXCEPT !.S = Return(@, FALSE)]

\* the avatar of a user is checked, with or without a message in the update
AvatarCheck(k, has_message, f) ==
    /\ handled < MaxAvatarChecks
    /\ FaultAllowed(f)
    /\ chat_member[k].status = "member"
    /\ handled' = handled + 1
    /\ \E A \in {check_user_avatar([S |-> Snapshot, acc |-> avatar_check_cache,
                                     uapc |-> user_avatar_phash_cache],
                                    k, has_message, f)} :
          /\ avatar_check_cache' = A.acc
          /\ user_avatar_phash_cache' = A.uapc
          /\ user_message_id_cache' = A.S.ids
          /\ chat_member' = A.S.mem
          /\ banned_users' = A.S.gb
          /\ faults' = IF PlatformFailed(A.S.calls) THEN faults + 1 ELSE faults
          /\ ev' = Event("avatar_check", k, NoMsg,
                         [A.S EXCEPT !.acted = IF A.S.ret THEN "banned" ELSE "none"])
    /\ UNCHANGED <<now, ticks, user_moderation_tracker, tracker_order,
                   bot_message_cache, whitelisted_users, delete_links_enabled, repeated,
                   bio_check_cache, ban_nickname_words, names, unbanned_rows,
                   profile_checks, inactive_chats, ban_proposals, rule_rows,
                   profile_photos, running>>
    /\ UNCHANGED gate_vars

\* the profile photos of the model: one with a banned file id, one that
\* cannot be decoded, one close to a banned hash and one far from it
Photos ==
    {NoPhoto,
     [file_unique_id |-> "banned", image |-> Corrupt],
     [file_unique_id |-> "broken", image |-> Corrupt],
     [file_unique_id |-> "near", image |-> [decodable |-> TRUE, pixels |-> NearHash]],
     [file_unique_id |-> "far", image |-> [decodable |-> TRUE, pixels |-> FarHash]]}

InitAvatar ==
    /\ now = 0
    /\ ticks = 0
    /\ handled = 0
    /\ faults = 0
    /\ user_moderation_tracker = [k \in Keys |-> EmptyEntry]
    /\ tracker_order = << >>
    /\ bot_message_cache = [r \in Rooms |-> << >>]
    /\ user_message_id_cache = [k \in Keys |-> 1]
    /\ chat_member = [k \in Keys |-> M_member]
    /\ banned_users = {}
    /\ whitelisted_users = {}
    /\ delete_links_enabled = [r \in Rooms |-> FALSE]
    /\ repeated = T_hi
    /\ welcome_captcha_enabled = [r \in Rooms |-> FALSE]
    /\ welcome_text = [r \in Rooms |-> FALSE]
    /\ bios = [u \in Users |-> << >>]
    /\ bio_check_cache = [u \in Users |-> NoCheck]
    /\ jobs = {}
    /\ job = NoJob
    /\ handler = NoHandler
    /\ updates = << >>
    /\ chat_messages = {}
    /\ next_message_id = 1
    /\ verified = {}
    /\ ban_nickname_words = {}
    /\ names = [u \in Users |-> <<T_empty, T_hi, T_empty>>]
    /\ unbanned_rows = {}
    /\ profile_checks = {}
    /\ inactive_chats = {}
    /\ ban_proposals = [r \in RequestIds |-> NoProposal]
    /\ rule_rows = {}
    /\ profile_photos \in [Users -> Photos]
    /\ avatar_check_cache = [u \in Users |-> NoCheck]
    /\ user_avatar_phash_cache = {}
    /\ running = {}
    /\ ev = Idle("init", <<0, 0>>)

NextAvatar ==
    \/ \E k \in Keys, has_message \in BOOLEAN,
          f \in {"none", "photos", "download", "delete", "ban", "purge"} :
             AvatarCheck(k, has_message, f)
    \/ Tick

SpecAvatar == InitAvatar /\ [][NextAvatar]_vars

\* ------------------------------------------------------------------------
\* The cooldown of the avatar check and of the bio check
\* ------------------------------------------------------------------------
CooldownStep == 150

\* the bio of a user is checked, with or without a message in the update
BioCheck(k, has_message, f) ==
    /\ Budget(MaxAvatarChecks, f)
    /\ chat_member[k].status = "member"
    /\ \E R \in {check_user_bio(Snapshot, k, has_message, f)} :
          Commit(R, Event("bio_check", k, NoMsg,
                          [R EXCEPT !.acted = IF R.ret THEN "banned" ELSE "none"]))
    /\ UNCHANGED <<now, whitelisted_users, delete_links_enabled, ticks, repeated>>
    /\ UNCHANGED gate_vars

\* half a cooldown window passes
Wait ==
    /\ ticks < MaxTicks
    /\ ticks' = ticks + 1
    /\ now' = now + CooldownStep
    /\ ev' = Idle("wait", <<0, 0>>)
    /\ UNCHANGED db_vars
    /\ UNCHANGED <<user_moderation_tracker, tracker_order, bot_message_cache,
                   user_message_id_cache, chat_member, banned_users,
                   whitelisted_users, delete_links_enabled, handled, faults,
                   repeated, bio_check_cache>>
    /\ UNCHANGED gate_vars

\* every user has the same bio and the same profile photo; no check ran yet
InitCooldown ==
    /\ now = 0
    /\ ticks = 0
    /\ handled = 0
    /\ faults = 0
    /\ user_moderation_tracker = [k \in Keys |-> EmptyEntry]
    /\ tracker_order = << >>
    /\ bot_message_cache = [r \in Rooms |-> << >>]
    /\ user_message_id_cache = [k \in Keys |-> 1]
    /\ chat_member = [k \in Keys |-> M_member]
    /\ banned_users = {}
    /\ whitelisted_users = {}
    /\ delete_links_enabled = [r \in Rooms |-> FALSE]
    /\ repeated = T_hi
    /\ welcome_captcha_enabled = [r \in Rooms |-> FALSE]
    /\ welcome_text = [r \in Rooms |-> FALSE]
    /\ \E b \in {T_hi, T_word} : bios = [u \in Users |-> b]
    /\ bio_check_cache = [u \in Users |-> NoCheck]
    /\ jobs = {}
    /\ job = NoJob
    /\ handler = NoHandler
    /\ updates = << >>
    /\ chat_messages = {}
    /\ next_message_id = 1
    /\ verified = {}
    /\ ban_nickname_words = {}
    /\ names = [u \in Users |-> <<T_empty, T_hi, T_empty>>]
    /\ unbanned_rows = {}
    /\ profile_checks = {}
    /\ inactive_chats = {}
    /\ ban_proposals = [r \in RequestIds |-> NoProposal]
    /\ rule_rows = {}
    /\ \E p \in Photos : profile_photos = [u \in Users |-> p]
    /\ avatar_check_cache = [u \in Users |-> NoCheck]
    /\ user_avatar_phash_cache = {}
    /\ running = {}
    /\ ev = Idle("init", <<0, 0>>)

NextCooldown ==
    \/ \E k \in Keys, has_message \in BOOLEAN, f \in {"none", "photos", "ban"} :
          AvatarCheck(k, has_message, f)
    \/ \E k \in Keys, has_message \in BOOLEAN, f \in {"none", "delete", "ban"} :
          BioCheck(k, has_message, f)
    \/ Wait

SpecCooldown == InitCooldown /\ [][NextCooldown]_vars

\* ------------------------------------------------------------------------
\* The dispatcher and the message handler, step by step
\* ------------------------------------------------------------------------
\* The handler of a message of a plain member is followed through the
\* tracker's read-modify-write: _check_spam up to its first await, the
\* deletion of the message, _issue_warning_and_mute_if_needed up to the
\* permission lookup, the lookup, the restriction with the reset of the
\* counter that follows it, and the notice.  Between two awaits the event
\* loop runs nothing else.
MaxSerial == 3
MaxQueue == 2

\* a faulty variant of the dispatcher: an update is handled as soon as it
\* arrives (concurrent_updates switched on)
CanDispatchConcurrent(tasks) == TRUE

\* main.py: the Application is built without concurrent_updates, so the
\* update fetcher awaits the handlers of one update before it takes the next
CanDispatch(tasks) == tasks = {}

RunningTask(k, pc, seen) == [key |-> k, pc |-> pc, seen |-> seen]

\* the platform queues a message of a member
Arrive(k, text) ==
    /\ CanSend(k)
    /\ Len(updates) < MaxQueue
    /\ handled + Len(updates) < MaxSerial
    /\ updates' = Append(updates, [key |-> k, text |-> text])
    /\ ev' = Idle("arrive", k)
    /\ UNCHANGED <<now, ticks, handled, faults, user_moderation_tracker, tracker_order,
                   bot_message_cache, user_message_id_cache, chat_member, banned_users,
                   whitelisted_users, delete_links_enabled, bio_check_cache, repeated>>
    /\ UNCHANGED <<welcome_captcha_enabled, welcome_text, bios, jobs, job, handler,
                   chat_messages, next_message_id, verified>>
    /\ UNCHANGED db_vars

\* what a step of a handler leaves alone
SerialFrame ==
    /\ UNCHANGED <<now, ticks, whitelisted_users, delete_links_enabled, repeated,
                   user_message_id_cache, banned_users, bio_check_cache>>
    /\ UNCHANGED <<welcome_captcha_enabled, welcome_text, bios, jobs, job, handler,
                   chat_messages, next_message_id, verified>>
    /\ UNCHANGED <<ban_nickname_words, names, unbanned_rows, profile_checks,
                   inactive_chats, ban_proposals, rule_rows, profile_photos,
                   avatar_check_cache, user_avatar_phash_cache>>

\* the update at the head of the queue is handled: _check_spam up to
\* `await update.message.delete()`, and _check_caps up to the same await
\* when the message is no flood
Dispatch ==
    /\ updates # << >>
    /\ CanDispatch(running)
    /\ LET k == Head(updates).key
           message_text == Head(updates).text
           S1 == EnsureEntry(Snapshot, k)
           kept == spam_window(S1.trk[k].last_messages, message_text, now)
           flood == identical_count(kept, message_text) >= MAX_IDENTICAL_MESSAGES_BEFORE_WARN
           S2 == [S1 EXCEPT !.trk[k].last_messages =
                     IF flood THEN reset_identical(kept, message_text) ELSE kept]
       IN /\ user_moderation_tracker' = S2.trk
          /\ tracker_order' = S2.ord
          /\ running' = IF flood \/ caps_violation(message_text)
                        THEN running \cup {RunningTask(k, "delete", 0)}
                        ELSE running
          /\ ev' = Idle("dispatch", k)
    /\ updates' = Tail(updates)
    /\ handled' = handled + 1
    /\ UNCHANGED <<faults, chat_member, bot_message_cache>>
    /\ SerialFrame

\* the deletion returns, with or without an error, and
\* _issue_warning_and_mute_if_needed runs up to its first await
Deleted(h) ==
    /\ h \in running
    /\ h.pc = "delete"
    /\ LET k == h.key
           S1 == EnsureEntry(Snapshot, k)
           total == S1.trk[k].warnings + 1
       IN /\ user_moderation_tracker' = [S1.trk EXCEPT ![k].warnings = total]
          /\ tracker_order' = S1.ord
          /\ running' = (running \ {h}) \cup
                            {RunningTask(k, IF ladder_reached(total) THEN "permission"
                                            ELSE "send_warn", total)}
          /\ ev' = Idle("deleted", k)
    /\ UNCHANGED <<handled, faults, updates, chat_member, bot_message_cache>>
    /\ SerialFrame

\* get_me and get_chat_member return: without the right to restrict the
\* handler returns
Permission(h, f) ==
    /\ h \in running
    /\ h.pc = "permission"
    /\ FaultAllowed(f)
    /\ running' = IF f = "noperm" THEN running \ {h}
                  ELSE (running \ {h}) \cup {RunningTask(h.key, "restrict", h.seen)}
    /\ faults' = IF f = "noperm" THEN faults + 1 ELSE faults
    /\ ev' = Idle("permission", h.key)
    /\ UNCHANGED <<handled, updates, chat_member, bot_message_cache,
                   user_moderation_tracker, tracker_order>>
    /\ SerialFrame

\* restrict_chat_member returns: the counter is reset, or the call raised
\* and the except clause ends the handler
Restrict(h, f) ==
    /\ h \in running
    /\ h.pc = "restrict"
    /\ FaultAllowed(f)
    /\ IF f = "restrict"
       THEN /\ running' = running \ {h}
            /\ faults' = faults + 1
            /\ UNCHANGED <<chat_member, user_moderation_tracker>>
       ELSE /\ running' = (running \ {h}) \cup {RunningTask(h.key, "send_mute", 0)}
            /\ chat_member' = [chat_member EXCEPT ![h.key] = Restricted(PERMS_MUTE)]
            /\ user_moderation_tracker' =
                   [user_moderation_tracker EXCEPT ![h.key].warnings = 0]
            /\ UNCHANGED faults
    /\ ev' = Idle("restrict", h.key)
    /\ UNCHANGED <<handled, updates, bot_message_cache, tracker_order>>
    /\ SerialFrame

\* the notice of the warning or of the mute is sent and the handler ends
Notice(h) ==
    /\ h \in running
    /\ h.pc \in {"send_warn", "send_mute"}
    /\ running' = running \ {h}
    /\ bot_message_cache' =
          add_bot_message_to_cache(Snapshot, h.key[1],
                                   IF h.pc = "send_mute" THEN N_mute ELSE N_warn(h.seen)).bmc
    /\ ev' = Idle("notice", h.key)
    /\ UNCHANGED <<handled, faults, updates, chat_member, user_moderation_tracker,
                   tracker_order>>
    /\ SerialFrame

\* Every member has an entry with some warnings and two recent copies of
\* the message that is about to be repeated.
InitSerial ==
    /\ now = 0
    /\ ticks = 0
    /\ handled = 0
    /\ faults = 0
    /\ \E w \in 0..(MAX_WARNINGS - 1) :
          user_moderation_tracker =
             [k \in Keys |-> [EmptyEntry EXCEPT
                                 !.warnings = w,
                                 !.last_messages = << [text |-> T_hi, time |-> 0],
                                                      [text |-> T_hi, time |-> 0] >>]]
    /\ tracker_order = << <<1, 1>>, <<1, 2>> >>
    /\ bot_message_cache = [r \in Rooms |-> << >>]
    /\ user_message_id_cache = [k \in Keys |-> 0]
    /\ chat_member = [k \in Keys |-> M_member]
    /\ banned_users = {}
    /\ whitelisted_users = {}
    /\ delete_links_enabled = [r \in Rooms |-> FALSE]
    /\ repeated = T_hi
    /\ GateIdle
    /\ ev = Idle("init", <<0, 0>>)

NextSerial ==
    \/ \E k \in Keys, text \in {T_hi, T_caps} : Arrive(k, text)
    \/ Dispatch
    \/ \E h \in running : Deleted(h)
    \/ \E h \in running, f \in {"none", "noperm"} : Permission(h, f)
    \/ \E h \in running, f \in {"none", "restrict"} : Restrict(h, f)
    \/ \E h \in running : Notice(h)

SpecSerial == InitSerial /\ [][NextSerial]_vars

\* ------------------------------------------------------------------------
\* The tracker next to its size limit
\* ------------------------------------------------------------------------
\* the entries of n other members of the room, who wrote one after the other
\* and take no further part
CrowdUsers(n) == 3..(n + 2)
Crowd(n) == [i \in 1..n |-> <<1, i + 2>>]

\* The tracker holds the entries of a crowd, one or none below the limit;
\* the bot has posted a warning notice.
InitCrowd ==
    /\ now = 0
    /\ ticks = 0
    /\ handled = 0
    /\ faults = 0
    /\ \E n \in {MAX_HISTORY_USERS - 1, MAX_HISTORY_USERS} :
          /\ tracker_order = Crowd(n)
          /\ user_moderation_tracker =
                [k \in Keys \cup ({1} \X CrowdUsers(n)) |-> EmptyEntry]
    /\ bot_message_cache = [r \in Rooms |-> <<normalize_text(N_warn(1))>>]
    /\ user_message_id_cache = [k \in Keys |-> 0]
    /\ chat_member = [k \in Keys |-> M_member]
    /\ banned_users = {}
    /\ whitelisted_users = {}
    /\ delete_links_enabled = [r \in Rooms |-> FALSE]
    /\ repeated = T_mimic
    /\ GateIdle
    /\ ev = Idle("init", <<0, 0>>)

NextCrowd ==
    \/ \E k \in Keys, t \in {T_hi, T_caps, T_zalgo, T_mimic}, f \in {"none", "send"} :
          Budget(MaxEvents, f) /\ Message(k, Msg(t, "none", FALSE), f)
    \/ \E k \in Keys, t \in {T_hi, T_zalgo}, f \in {"none", "send"} :
          Budget(MaxEvents, f) /\ Edit(k, Msg(t, "none", FALSE), f)

SpecCrowd == InitCrowd /\ [][NextCrowd]_vars

\* ------------------------------------------------------------------------
\* A member with an old challenge message
\* ------------------------------------------------------------------------
\* The room asks for the captcha.  The member passed it some time ago and
\* writes freely; a challenge message that names the member still carries
\* its button (it was posted at an earlier join that the member left before
\* pressing, so that the next join replaced its kick job; or the edit that
\* takes the button off failed).  No job is pending.  The member may have
\* been warned before.
InitChallenge ==
    /\ DbIdle
    /\ now = 0
    /\ ticks = 0
    /\ handled = 0
    /\ faults = 0
    /\ \E w \in 0..(MAX_WARNINGS - 1) :
          user_moderation_tracker =
             [k \in Keys |-> IF k = Joiner THEN [EmptyEntry EXCEPT !.warnings = w]
                             ELSE EmptyEntry]
    /\ tracker_order = <<Joiner>>
    /\ bot_message_cache = [r \in Rooms |-> << >>]
    /\ user_message_id_cache = [k \in Keys |-> 0]
    /\ chat_member = [k \in Keys |-> M_member]
    /\ banned_users = {}
    /\ whitelisted_users = {}
    /\ delete_links_enabled = [r \in Rooms |-> FALSE]
    /\ repeated = T_caps
    /\ welcome_captcha_enabled = [r \in Rooms |-> TRUE]
    /\ welcome_text \in [Rooms -> BOOLEAN]
    /\ bios = [u \in Users |-> T_hi]
    /\ bio_check_cache = [u \in Users |-> NoCheck]
    /\ jobs = {}
    /\ job = NoJob
    /\ handler = NoHandler
    /\ updates = << >>
    /\ chat_messages = {[id |-> 1, room |-> Joiner[1], user |-> Joiner[2], button |-> TRUE]}
    /\ next_message_id = 2
    /\ verified = {}
    /\ ev = Idle("init", <<0, 0>>)

NextChallenge ==
    \/ \E f \in {"none", "restrict"} : GateMessage(Joiner, Msg(repeated, "none", FALSE), f)
    \/ \E u \in Users, m \in chat_messages : Press(u, m)
    \/ DeliverLeft
    \/ DeliverOther
    \/ \E f \in {"none", "lookup"} : GreetScreen(f)
    \/ \E f \in {"none", "restrict"} : GreetRestrict(f)
    \/ \E f \in {"none", "send"} : GreetChallenge(f)
    \/ VerifyRefuse
    \/ \E f \in {"none", "restrict"}, lifted \in LiftOutcomes : VerifyRestrict(f, lifted)
    \/ \E f \in {"none", "send"} : VerifyFinish(f)
    \/ \E j \in jobs : JobFire(j)
    \/ \E f \in {"none", "ban"} : KickAct(f)
    \/ \E f \in {"none", "unban"} : KickUnban(f)
    \/ KickClean

SpecChallenge == InitChallenge /\ [][NextChallenge]_vars

\* ------------------------------------------------------------------------
\* A member under the media restriction of the join
\* ------------------------------------------------------------------------
\* The room has no captcha and a welcome text.  The member has joined: the
\* gate has checked the bio, applied the media restriction, posted the
\* welcome and scheduled the lift job.  The member may have been warned
\* at an earlier stay.
InitLift ==
    /\ DbIdle
    /\ now = 0
    /\ ticks = 0
    /\ handled = 0
    /\ faults = 0
    /\ \E w \in 0..(MAX_WARNINGS - 1) :
          user_moderation_tracker =
             [k \in Keys |-> IF k = Joiner THEN [EmptyEntry EXCEPT !.warnings = w]
                             ELSE EmptyEntry]
    /\ tracker_order = <<Joiner>>
    /\ bot_message_cache = [r \in Rooms |-> << >>]
    /\ user_message_id_cache = [k \in Keys |-> 0]
    /\ chat_member = [k \in Keys |-> IF k = Joiner THEN Restricted(PERMS_MEDIA_RESTRICT)
                                     ELSE M_member]
    /\ banned_users = {}
    /\ whitelisted_users = {}
    /\ delete_links_enabled = [r \in Rooms |-> FALSE]
    /\ repeated \in {T_caps, T_hi}
    /\ welcome_captcha_enabled = [r \in Rooms |-> FALSE]
    /\ welcome_text = [r \in Rooms |-> TRUE]
    /\ bios = [u \in Users |-> T_hi]
    /\ bio_check_cache = [u \in Users |-> IF u = Joiner[2] THEN 0 ELSE NoCheck]
    /\ jobs = {[kind |-> "lift", key |-> Joiner, msg |-> 1]}
    /\ job = NoJob
    /\ handler = NoHandler
    /\ updates = << >>
    /\ chat_messages = {[id |-> 1, room |-> Joiner[1], user |-> Joiner[2], button |-> FALSE]}
    /\ next_message_id = 2
    /\ verified = {}
    /\ ev = Idle("init", <<0, 0>>)

NextLift ==
    \/ \E f \in {"none", "restrict", "noperm"} :
          GateMessage(Joiner, Msg(repeated, "none", FALSE), f)
    \/ DeliverOther
    \/ \E f \in {"none", "lookup"} : GreetScreen(f)
    \/ \E f \in {"none", "restrict"} : GreetRestrict(f)
    \/ \E f \in {"none", "send"} : GreetChallenge(f)
    \/ \E j \in jobs : JobFire(j)
    \/ \E f \in {"none", "restrict"}, lifted \in LiftOutcomes : LiftAct(f, lifted)

SpecLift == InitLift /\ [][NextLift]_vars

\* ------------------------------------------------------------------------
\* normalize_text on arbitrary short texts
\* ------------------------------------------------------------------------
MaxLen == 4
MaxTextOps == 2

\* letters in both cases and two kinds of whitespace
TextChars == {"A", "a", " ", "\n"}
Texts == UNION {[1..n -> TextChars] : n \in 0..MaxLen}

\* t is s with a whitespace character put in at the start, at the end or
\* next to a whitespace character
SpaceInserted(s, t) ==
    /\ Len(t) = Len(s) + 1
    /\ \E i \in 0..Len(s) :
          /\ t[i + 1] \in SpaceChars
          /\ \A j \in 1..i : t[j] = s[j]
          /\ \A j \in (i + 1)..Len(s) : t[j + 1] = s[j]
          /\ \/ i = 0
             \/ i = Len(s)
             \/ i >= 1 /\ s[i] \in SpaceChars
             \/ i < Len(s) /\ s[i + 1] \in SpaceChars

\* s and t differ in the case of letters and in the kind of whitespace
\* characters only
SameButCaseAndSpaceKind(s, t) ==
    /\ Len(t) = Len(s)
    /\ \A i \in 1..Len(s) :
          \/ s[i] \in SpaceChars /\ t[i] \in SpaceChars
          \/ s[i] \notin SpaceChars /\ t[i] \notin SpaceChars /\ LowerOf(s[i]) = LowerOf(t[i])

\* one step between texts that differ only in letter case and in the
\* length or kind of whitespace runs
Variant(s, t) ==
    \/ SameButCaseAndSpaceKind(s, t)
    \/ SpaceInserted(s, t)
    \/ SpaceInserted(t, s)

\* the text is replaced by a variant of it
Vary ==
    /\ handled < MaxTextOps
    /\ handled' = handled + 1
    /\ \E t \in Texts : Variant(repeated, t) /\ t # repeated /\ repeated' = t
    /\ ev' = Idle("vary", <<0, 0>>)
    /\ UNCHANGED db_vars
    /\ UNCHANGED <<now, ticks, faults, user_moderation_tracker, tracker_order,
                   bot_message_cache, user_message_id_cache, chat_member, banned_users,
                   whitelisted_users, delete_links_enabled, bio_check_cache>>
    /\ UNCHANGED gate_vars

\* the text is normalized
Normalize ==
    /\ handled < MaxTextOps
    /\ handled' = handled + 1
    /\ repeated' = normalize_text(repeated)
    /\ ev' = Idle("normalize", <<0, 0>>)
    /\ UNCHANGED db_vars
    /\ UNCHANGED <<now, ticks, faults, user_moderation_tracker, tracker_order,
                   bot_message_cache, user_message_id_cache, chat_member, banned_users,
                   whitelisted_users, delete_links_enabled, bio_check_cache>>
    /\ UNCHANGED gate_vars

InitText ==
    /\ now = 0
    /\ ticks = 0
    /\ handled = 0
    /\ faults = 0
    /\ user_moderation_tracker = [k \in Keys |-> EmptyEntry]
    /\ tracker_order = << >>
    /\ bot_message_cache = [r \in Rooms |-> << >>]
    /\ user_message_id_cache = [k \in Keys |-> 0]
    /\ chat_member = [k \in Keys |-> M_member]
    /\ banned_users = {}
    /\ whitelisted_users = {}
    /\ delete_links_enabled = [r \in Rooms |-> FALSE]
    /\ repeated \in Texts
    /\ GateIdle
    /\ ev = Idle("init", <<0, 0>>)

SpecText == InitText /\ [][Vary \/ Normalize]_vars

\* ------------------------------------------------------------------------
\* is_zalgo_text on arbitrary short texts and thresholds
\* ------------------------------------------------------------------------
\* a letter, a combining mark and a precomposed letter
ZalgoChars == {"a", "U+0303", "U+00E3"}
ZalgoTexts == UNION {[1..n -> ZalgoChars] : n \in 0..MaxLen}
\* the values of min_diacritics and of ratio_threshold (as num / den)
MinDiacritics == {1, 2, 3}
RatioThresholds == {<<1, 2>>, <<1, 1>>, <<2, 1>>}

\* the text is classified under the given thresholds
Classify(min_diacritics, ratio) ==
    /\ handled < MaxTextOps
    /\ handled' = handled + 1
    /\ ev' = [Idle("classify", <<min_diacritics, ratio>>) EXCEPT
                 !.acted = IF is_zalgo_text(repeated, min_diacritics, ratio[1], ratio[2])
                           THEN "zalgo" ELSE "plain"]
    /\ UNCHANGED db_vars
    /\ UNCHANGED <<now, ticks, faults, user_moderation_tracker, tracker_order,
                   bot_message_cache, user_message_id_cache, chat_member, banned_users,
                   whitelisted_users, delete_links_enabled, bio_check_cache, repeated>>
    /\ UNCHANGED gate_vars

\* one more character is typed
Extend(c) ==
    /\ Len(repeated) < MaxLen
    /\ repeated' = Append(repeated, c)
    /\ ev' = Idle("extend", <<0, 0>>)
    /\ UNCHANGED db_vars
    /\ UNCHANGED <<now, ticks, faults, handled, user_moderation_tracker, tracker_order,
                   bot_message_cache, user_message_id_cache, chat_member, banned_users,
                   whitelisted_users, delete_links_enabled, bio_check_cache>>
    /\ UNCHANGED gate_vars

InitZalgo ==
    /\ now = 0
    /\ ticks = 0
    /\ handled = 0
    /\ faults = 0
    /\ user_moderation_tracker = [k \in Keys |-> EmptyEntry]
    /\ tracker_order = << >>
    /\ bot_message_cache = [r \in Rooms |-> << >>]
    /\ user_message_id_cache = [k \in Keys |-> 0]
    /\ chat_member = [k \in Keys |-> M_member]
    /\ banned_users = {}
    /\ whitelisted_users = {}
    /\ delete_links_enabled = [r \in Rooms |-> FALSE]
    /\ repeated \in ZalgoTexts
    /\ GateIdle
    /\ ev = Idle("init", <<0, 0>>)

NextZalgo ==
    \/ \E min_diacritics \in MinDiacritics, ratio \in RatioThresholds :
          Classify(min_diacritics, ratio)
    \/ \E c \in ZalgoChars : Extend(c)

SpecZalgo == InitZalgo /\ [][NextZalgo]_vars

\* ------------------------------------------------------------------------
\* Profile screening of the senders of messages
\* ------------------------------------------------------------------------
\* handlers/member_handlers.py check_message_username (group -1).  For an
\* administrator the handler raises ApplicationHandlerStop inside the try
\* whose `except Exception` catches it: a warning is logged and the handler
\* goes on.  Avatars and names match nothing here.
check_message_username(S, k, f) ==
    LET S1 == IF ~MODERATE_ADMINS /\ is_chat_admin(S, k)
              THEN Call(S, "log_admin_check_failed", TRUE, 0) ELSE S
        R == check_user_bio(S1, k, TRUE, f)
    IN IF is_whitelisted(k) THEN S1
       ELSE IF R.ret THEN Stop(R) ELSE Return(R, FALSE)

\* a message arrives: the profile handler runs, and unless it stopped the
\* update, the content handler (group 0) after it
MessageUpdate(k, msg, f) ==
    /\ CanSend(k)
    /\ \E P \in {check_message_username(Snapshot, k, f)} :
       \E R \in {IF P.stop THEN P
                 ELSE check_user_message([P EXCEPT !.ret = FALSE, !.exc = FALSE], k, msg, f)} :
          Commit(R, Event("message_update", k, msg, R))
    /\ UNCHANGED <<now, whitelisted_users, delete_links_enabled, ticks, repeated>>
    /\ UNCHANGED gate_vars

\* The sender, a member or an administrator with some bio, may be on the
\* room's whitelist.
InitProfile ==
    /\ DbIdle
    /\ now = 0
    /\ ticks = 0
    /\ handled = 0
    /\ faults = 0
    /\ user_moderation_tracker = [k \in Keys |-> EmptyEntry]
    /\ tracker_order = << >>
    /\ bot_message_cache = [r \in Rooms |-> << >>]
    /\ user_message_id_cache = [k \in Keys |-> 0]
    /\ \E m \in {M_member, M_admin} :
          chat_member = [k \in Keys |-> IF k = Sender THEN m ELSE M_member]
    /\ banned_users = {}
    /\ whitelisted_users \in {{}, {Sender}}
    /\ delete_links_enabled \in [Rooms -> BOOLEAN]
    /\ repeated = T_hi
    /\ welcome_captcha_enabled = [r \in Rooms |-> FALSE]
    /\ welcome_text = [r \in Rooms |-> FALSE]
    /\ \E b \in Bios : bios = [u \in Users |-> IF u = Sender[2] THEN b ELSE T_hi]
    /\ bio_check_cache = [u \in Users |-> NoCheck]
    /\ jobs = {}
    /\ job = NoJob
    /\ handler = NoHandler
    /\ updates = << >>
    /\ chat_messages = {}
    /\ next_message_id = 1
    /\ verified = {}
    /\ ev = Idle("init", <<0, 0>>)

NextProfile ==
    \/ \E msg \in {Msg(T_hi, "none", FALSE), Msg(T_caps, "none", FALSE)}, f \in Faults :
          Budget(MaxEvents, f) /\ MessageUpdate(Sender, msg, f)
    \/ Tick
    \/ Unmute(Sender)

SpecProfile == InitProfile /\ [][NextProfile]_vars

\* ------------------------------------------------------------------------
\* Properties of the message pipeline
\* ------------------------------------------------------------------------
HasCall(calls, c) == \E i \in 1..Len(calls) : calls[i].call = c
CallOk(calls, c) == \E i \in 1..Len(calls) : calls[i].call = c /\ calls[i].ok
CallOkN(calls, c, n) ==
    \E i \in 1..Len(calls) : calls[i].call = c /\ calls[i].ok /\ calls[i].n = n
CountCalls(calls, c) == Cardinality({i \in 1..Len(calls) : calls[i].call = c})
\* the bot may not restrict, or the platform refused the mute
MuteRefused(calls) ==
    \E i \in 1..Len(calls) :
        calls[i].call \in {"bot_can_restrict", "restrict_mute"} /\ ~calls[i].ok
Muted(m) == m.status = "restricted" /\ ~m.can_send_messages

C2_FloodOncePerCrossing ==
    [][(ev'.op = "message" /\ now' <= SPAM_WINDOW_SECONDS) =>
        /\ (ev'.acted = "spam") <=> (handled' % MAX_IDENTICAL_MESSAGES_BEFORE_WARN = 0)
        /\ (ev'.acted = "spam") =>
              identical_count(user_moderation_tracker'[ev'.key].last_messages,
                              ev'.msg.text) = 0
    ]_vars

\* the second detection of a flood, on message 2N
C2_Witness ==
    /\ ev.op = "message"
    /\ ev.acted = "spam"
    /\ now <= SPAM_WINDOW_SECONDS
    /\ handled = 2 * MAX_IDENTICAL_MESSAGES_BEFORE_WARN

\* the caps test as the specification words it
CapsHeavy(text) ==
    /\ Len(text) >= CAPS_THRESHOLD
    /\ CountIn(text, UpperChars) >= CAPS_THRESHOLD

\* the sender is moderated and the message passed the checks before caps
ReachesCaps ==
    /\ ev'.op = "message"
    /\ chat_member[ev'.key].status \notin {"administrator", "creator"}
    /\ ev'.key[2] \notin banned_users
    /\ ev'.key \notin whitelisted_users
    /\ ev'.acted \notin {"mimic", "forward", "spam"}

\* C3: a message that passes the earlier checks is handled by the caps check
\* exactly when it has CAPS_THRESHOLD characters and CAPS_THRESHOLD capitals;
\* it is then deleted first and one warning is issued with the counter one
\* higher than before, which is where the counter stays unless the ladder
\* mutes.  From a fresh entry, eight capitals leave counter 1 and no mute.
C3_Caps ==
    [][ReachesCaps =>
        LET k == ev'.key
            w == user_moderation_tracker[k].warnings
            w2 == user_moderation_tracker'[k].warnings
        IN /\ (ev'.acted = "caps") <=> CapsHeavy(ev'.msg.text)
           /\ (ev'.acted = "caps") =>
                /\ ev'.calls[1].call = "delete_message"
                /\ CountCalls(ev'.calls, "delete_message") = 1
                /\ CountCalls(ev'.calls, "log_WarningIssued") = 1
                /\ CallOkN(ev'.calls, "log_WarningIssued", w + 1)
                /\ w2 = IF CallOk(ev'.calls, "restrict_mute") THEN 0 ELSE w + 1
           /\ (ev'.msg.text = T_caps /\ ~InSeq(tracker_order, k)) =>
                /\ w2 = 1
                /\ ~HasCall(ev'.calls, "restrict_mute")
                /\ chat_member'[k] = chat_member[k]
                /\ (~PlatformFailed(ev'.calls) =>
                        /\ CallOk(ev'.calls, "delete_message")
                        /\ CallOkN(ev'.calls, "send_warn", 1))
    ]_vars

\* eight capitals from a member without history: deleted, warned once
C3_Witness ==
    /\ ev.op = "message"
    /\ ev.acted = "caps"
    /\ ev.msg.text = T_caps
    /\ handled = 1
    /\ CallOk(ev.calls, "delete_message")
    /\ CallOkN(ev.calls, "send_warn", 1)
    /\ user_moderation_tracker[Sender].warnings = 1
    /\ chat_member[Sender] = M_member

\* C4: a message or an edit of a sender on the room's whitelist, who carries
\* no global ban, makes the handlers call nothing on the platform, and leaves
\* the tracker and the sender's membership as they were.
C4_WhitelistBypass ==
    [][(/\ ev'.op \in {"message", "edit"}
        /\ ev'.key \in whitelisted_users
        /\ (ev'.op = "message" => ev'.key[2] \notin banned_users)) =>
        /\ ev'.calls = << >>
        /\ ev'.acted = "none"
        /\ user_moderation_tracker' = user_moderation_tracker
        /\ tracker_order' = tracker_order
        /\ chat_member' = chat_member
        /\ banned_users' = banned_users
    ]_vars

\* a whitelisted member has sent the banned word and is still a member
C4_Witness ==
    /\ Sender \in whitelisted_users
    /\ Sender[2] \notin banned_users
    /\ ev.op \in {"message", "edit"}
    /\ ev.msg.text = T_word
    /\ ev.calls = << >>
    /\ chat_member[Sender] = M_member

\* the first check of the documented order that applies to the message
FirstApplicable(k, msg) ==
    IF k[2] \in banned_users THEN "global_ban"
    ELSE IF k \in whitelisted_users THEN "none"
    ELSE IF msg.text # << >> /\ InSeq(bot_message_cache[k[1]], normalize_text(msg.text))
    THEN "mimic"
    ELSE IF msg.fwd \in {"channel", "supergroup"} THEN "forward"
    ELSE IF /\ msg.text # << >>
            /\ Cardinality({i \in 1..Len(user_moderation_tracker[k].last_messages) :
                   /\ user_moderation_tracker[k].last_messages[i].text = msg.text
                   /\ user_moderation_tracker[k].last_messages[i].time
                          >= now - SPAM_WINDOW_SECONDS})
                 >= MAX_IDENTICAL_MESSAGES_BEFORE_WARN - 1
    THEN "spam"
    ELSE IF CapsHeavy(msg.text) THEN "caps"
    ELSE IF is_zalgo_text(msg.text, ZALGO_MIN_DIACRITICS, ZALGO_RATIO_NUM, ZALGO_RATIO_DEN)
    THEN "zalgo"
    ELSE IF delete_links_enabled[k[1]]
            /\ (msg.link_entity \/ (msg.text # << >> /\ has_link_in_text(msg.text)))
    THEN "link"
    ELSE IF msg.text # << >> /\ Contains(normalize_text(msg.text), <<"x", " ", "y">>)
    THEN "word"
    ELSE "none"

\* C5: for a message of a member who is not an administrator, the check that
\* acts is the first applicable one in the order global ban, whitelist,
\* mimicry, forward, flood, caps, obfuscated text, link, banned word; a check
\* that warns does not ban, a check that bans does not warn, and nothing is
\* called when no check applies.
C5_PriorityOrder ==
    [][(/\ ev'.op = "message"
        /\ chat_member[ev'.key].status \notin {"administrator", "creator"}) =>
        /\ ev'.acted = FirstApplicable(ev'.key, ev'.msg)
        /\ (ev'.acted = "none") => ev'.calls = << >>
        /\ (ev'.acted \in {"mimic", "spam", "caps"}) =>
              /\ ~HasCall(ev'.calls, "ban_chat_member")
              /\ CountCalls(ev'.calls, "log_WarningIssued") <= 1
              /\ CountCalls(ev'.calls, "restrict_mute") <= 1
        /\ (ev'.acted \in {"global_ban", "forward", "zalgo", "link", "word"}) =>
              /\ ~HasCall(ev'.calls, "send_warn")
              /\ ~HasCall(ev'.calls, "restrict_mute")
              /\ CountCalls(ev'.calls, "ban_chat_member") <= 1
    ]_vars

\* eight capitals around the banned word: the caps warning, and no ban
C5_Witness ==
    /\ ev.op = "message"
    /\ ev.msg.text = T_capsword
    /\ ev.acted = "caps"
    /\ CallOk(ev.calls, "send_warn")
    /\ ~HasCall(ev.calls, "ban_chat_member")
    /\ chat_member[Sender] = M_member

\* ------------------------------------------------------------------------
\* Properties of the join gate
\* ------------------------------------------------------------------------
KickJobsOf(q, k) == {j \in q : j.kind = "kick" /\ j.key = k}
FullyRestricted(m) ==
    m.status = "restricted" /\ ~m.can_send_messages /\ ~m.can_send_photos
Unrestricted(m) == InChat(m) /\ m.can_send_messages /\ m.can_send_photos

\* C6: in a room with the captcha on, greet_new_member's restriction leaves
\* the joining user fully restricted and goes on to the challenge; posting
\* the challenge leaves exactly one kick job for that (room, user), tied to
\* the new message with its button; the callback pressed by that user
\* leaves the user unrestricted and, when it ends, no kick job for that
\* (room, user) in the queue.
C6_CaptchaGate ==
    [][LET k == ev'.key
       IN /\ (/\ ev'.op = "greet_restrict"
              /\ welcome_captcha_enabled[k[1]]
              /\ ~ev'.exc) =>
                /\ FullyRestricted(chat_member'[k])
                /\ handler'.op = "greet"
                /\ handler'.pc = "challenge"
          /\ (/\ ev'.op = "greet_challenge"
              /\ welcome_captcha_enabled[k[1]]
              /\ CallOk(ev'.calls, "send_message")) =>
                \E m \in chat_messages' \ chat_messages :
                    /\ m.user = k[2]
                    /\ m.button
                    /\ KickJobsOf(jobs', k) = {[kind |-> "kick", key |-> k, msg |-> m.id]}
          /\ (ev'.op = "verify_restrict" /\ ~ev'.exc) =>
                /\ Unrestricted(chat_member'[k])
                /\ handler'.op = "verify"
          /\ (ev'.op = "verify_finish") => KickJobsOf(jobs', k) = {}
    ]_vars

\* the joiner has pressed the challenge: unrestricted, no kick job left
C6_Witness ==
    /\ ev.op = "verify_finish"
    /\ ev.key = Joiner
    /\ welcome_captcha_enabled[Joiner[1]]
    /\ Unrestricted(chat_member[Joiner])
    /\ KickJobsOf(jobs, Joiner) = {}
    /\ job = NoJob
    /\ \E m \in chat_messages : m.user = Joiner[2] /\ ~m.button

\* C7: the kick job never bans a member whose restriction verification has
\* lifted.  The job reads the member, and bans after an await during which
\* verify_member_callback can run: the claim does not hold of the code.
C7_VerifiedNeverKicked ==
    [][(ev'.op = "kick_act" /\ CallOk(ev'.calls, "ban_chat_member")) =>
          ev'.key \notin verified
    ]_vars

\* C8: a kick job that read the member as restricted without the right to
\* send bans the member, its next step unbans, which leaves the member out of
\* the chat and not banned, and its last step deletes the captcha message; a
\* job that read anything else bans nobody.
C8_CaptchaTimeout ==
    [][LET k == ev'.key
           awaiting == job.member.status = "restricted" /\ ~job.member.can_send_messages
       IN /\ (ev'.op = "kick_act" /\ awaiting /\ ~PlatformFailed(ev'.calls)) =>
                /\ CallOk(ev'.calls, "ban_chat_member")
                /\ chat_member'[k].status = "kicked"
                /\ job'.kind = "kick"
                /\ job'.pc = "banned"
          /\ (ev'.op = "kick_unban" /\ ~PlatformFailed(ev'.calls)) =>
                /\ CallOk(ev'.calls, "unban_chat_member")
                /\ chat_member'[k].status = "left"
                /\ job'.pc = "unbanned"
          /\ (ev'.op = "kick_clean") =>
                /\ ~\E m \in chat_messages' : m.id = job.msg
                /\ job' = NoJob
          /\ (ev'.op = "kick_act" /\ ~awaiting) =>
                /\ ~HasCall(ev'.calls, "ban_chat_member")
                /\ chat_member' = chat_member
                /\ job' = NoJob
    ]_vars

\* the timeout has run its course: the joiner is out, not banned, and the
\* one captcha message is gone
C8_Witness ==
    /\ ev.op = "kick_clean"
    /\ ev.key = Joiner
    /\ chat_member[Joiner].status = "left"
    /\ next_message_id = 2
    /\ chat_messages = {}
    /\ Joiner \notin verified

\* C9: when the callback handles a press by a user other than the one the
\* button names, no member, job or message changes and no handler stays
\* running.
C9_OnlyJoinerVerifies ==
    [][(/\ ev'.op \in {"verify_refuse", "verify_restrict"}
        /\ NextUpdate.key[2] # NextUpdate.target) =>
          /\ chat_member' = chat_member
          /\ jobs' = jobs
          /\ job' = job
          /\ handler' = NoHandler
          /\ chat_messages' = chat_messages
          /\ verified' = verified
          /\ user_message_id_cache' = user_message_id_cache
          /\ banned_users' = banned_users
    ]_vars

\* the bystander has pressed the joiner's button: the joiner is still
\* restricted and the kick job still scheduled
C9_Witness ==
    /\ ev.op = "verify_refuse"
    /\ ev.key = Bystander
    /\ FullyRestricted(chat_member[Joiner])
    /\ KickJobsOf(jobs, Joiner) # {}
    /\ \E m \in chat_messages : m.user = Joiner[2] /\ m.button

\* the positions of a call in the log
CallAt(calls, c) == {i \in 1..Len(calls) : calls[i].call = c}

\* C10: when the join screening checks the bio (no cooldown), the bio link
\* branch is not taken, the normalized bio contains the banned bio word and
\* no platform call fails, then the cached messages are purged, after that
\* the member is banned, after that the proposal is sent to each
\* administrator, and greet_new_member stops: no restriction, no challenge.
C10_BannedBioWord ==
    [][LET k == ev'.key
           bio == bios[k[2]]
           checked == \/ bio_check_cache[k[2]] = NoCheck
                      \/ now - bio_check_cache[k[2]] >= BIO_CHECK_COOLDOWN
           link_branch == delete_links_enabled[k[1]] /\ link_in_bio(MapLower(bio))
           has_word == Contains(normalize_text(bio), <<"x", " ", "y">>)
       IN (/\ ev'.op = "greet_screen"
           /\ chat_member[k].status \notin {"administrator", "creator"}
           /\ k[2] \notin banned_users
           /\ checked
           /\ ~link_branch
           /\ has_word
           /\ ~PlatformFailed(ev'.calls)) =>
             /\ \E i \in CallAt(ev'.calls, "delete_cached_messages") :
                \E j \in CallAt(ev'.calls, "ban_chat_member") :
                \E l \in CallAt(ev'.calls, "send_proposal") :
                    /\ i < j
                    /\ j < l
                    /\ ev'.calls[i].n = user_message_id_cache[k]
             /\ CountCalls(ev'.calls, "send_proposal") = Len(ADMIN_IDS)
             /\ CountCalls(ev'.calls, "ban_chat_member") = 1
             /\ (user_message_id_cache[k] > 0 => CallOk(ev'.calls, "delete_messages"))
             /\ user_message_id_cache'[k] = 0
             /\ chat_member'[k].status = "kicked"
             /\ handler' = NoHandler
             /\ ~HasCall(ev'.calls, "restrict_chat_member")
    ]_vars

\* the joiner's bio held the banned word: purged, banned, proposed
C10_Witness ==
    /\ ev.op = "greet_screen"
    /\ ev.key = Joiner
    /\ bios[Joiner[2]] = T_word
    /\ CallOk(ev.calls, "delete_messages")
    /\ CallOk(ev.calls, "ban_chat_member")
    /\ CallOk(ev.calls, "send_proposal")
    /\ chat_member[Joiner].status = "kicked"
    /\ user_message_id_cache[Joiner] = 0
    /\ handler = NoHandler

\* ------------------------------------------------------------------------
\* Properties of the ban procedure
\* ------------------------------------------------------------------------
\* C11: handling a message or an edit, which no administrator decides,
\* leaves the global-ban registry as it was.  _ban_for_word and the link
\* block of check_user_message call db.ban_user themselves: the claim does
\* not hold of the code.
C11_RegistryOnlyByAdmin ==
    [][(ev'.op \in {"message", "edit"}) => banned_users' = banned_users]_vars

\* C12: a message or an edit that gets its sender banned for a forward, a
\* second obfuscation strike, a link or a banned word, with no platform call
\* failing, has the room notice posted and one proposal sent to each
\* administrator.  The ban branch of _handle_zalgo_violation raises before
\* the notice: the claim does not hold of the code.
C12_BanNoticeAndProposal ==
    [][(/\ ev'.op \in {"message", "edit"}
        /\ ev'.acted \in {"forward", "zalgo", "link", "word"}
        /\ CallOk(ev'.calls, "ban_chat_member")
        /\ ~PlatformFailed(ev'.calls)) =>
          /\ CallOk(ev'.calls, "send_ban_notice")
          /\ CountCalls(ev'.calls, "send_proposal") = Len(ADMIN_IDS)
    ]_vars

\* ------------------------------------------------------------------------
\* Properties of the exemptions
\* ------------------------------------------------------------------------
\* C13: when a user on the room's whitelist, without a global-ban record,
\* joins, the screening step of greet_new_member neither restricts nor bans
\* for what it finds in the profile.  greet_new_member never asks the
\* whitelist: the claim does not hold of the code.
C13_WhitelistNoProfileScreening ==
    [][(/\ ev'.op = "greet_screen"
        /\ ev'.key \in whitelisted_users
        /\ ev'.key[2] \notin banned_users) =>
          /\ ~HasCall(ev'.calls, "ban_chat_member")
          /\ ~HasCall(ev'.calls, "restrict_chat_member")
          /\ chat_member' = chat_member
    ]_vars

\* C14: with MODERATE_ADMINS off, a message of a sender the platform reports
\* as administrator or owner makes neither handler call anything but the
\* caching of the message id: no bio is judged, no message deleted, nobody
\* restricted or banned.  check_message_username catches its own
\* ApplicationHandlerStop and screens the administrator: the claim does not
\* hold of the code.
C14_AdminExemption ==
    [][(/\ ev'.op = "message_update"
        /\ ~MODERATE_ADMINS
        /\ chat_member[ev'.key].status \in {"administrator", "creator"}) =>
          /\ ~HasCall(ev'.calls, "delete_message")
          /\ ~HasCall(ev'.calls, "delete_cached_messages")
          /\ ~HasCall(ev'.calls, "ban_chat_member")
          /\ ~HasCall(ev'.calls, "restrict_chat_member")
          /\ chat_member' = chat_member
          /\ user_moderation_tracker' = user_moderation_tracker
    ]_vars

\* ------------------------------------------------------------------------
\* Properties of the separate counters
\* ------------------------------------------------------------------------
\* C15: an obfuscated text, sent or edited in, is deleted first and counted
\* on the (room, user)'s zalgo counter, which messages and edits share.  The
\* first strike bans nobody and, no platform call failing, posts the
\* warning; every later strike calls the platform ban at once and warns
\* nobody.  Neither changes the shared warning counter or the mimicry
\* counter.
C15_ZalgoTwoStrike ==
    [][(ev'.op \in {"message", "edit"} /\ ev'.acted = "zalgo") =>
        LET k == ev'.key
            old == user_moderation_tracker[k]
            new == user_moderation_tracker'[k]
        IN /\ ev'.calls[1].call = "delete_message"
           /\ new.zalgo_warnings = old.zalgo_warnings + 1
           /\ new.warnings = old.warnings
           /\ new.mimic_warnings = old.mimic_warnings
           /\ ~HasCall(ev'.calls, "log_WarningIssued")
           /\ (old.zalgo_warnings = 0) =>
                /\ ~HasCall(ev'.calls, "ban_chat_member")
                /\ chat_member' = chat_member
                /\ (~PlatformFailed(ev'.calls) => CallOk(ev'.calls, "send_zalgo_warn"))
           /\ (old.zalgo_warnings >= 1) =>
                /\ HasCall(ev'.calls, "ban_chat_member")
                /\ ~HasCall(ev'.calls, "send_zalgo_warn")
                /\ (CallOk(ev'.calls, "ban_chat_member") =>
                        chat_member'[k].status = "kicked")
    ]_vars

\* two strikes on the shared counter, the second by an edit: banned
C15_Witness ==
    /\ ev.op = "edit"
    /\ ev.acted = "zalgo"
    /\ user_moderation_tracker[Sender].zalgo_warnings = 2
    /\ user_moderation_tracker[Sender].warnings = 0
    /\ CallOk(ev.calls, "ban_chat_member")
    /\ chat_member[Sender].status = "kicked"

\* C16: while no platform call fails, each message in which a member
\* repeats a cached notice of the bot is deleted first; the first is warned
\* and not muted, and every later one gets the timed mute.
\* _handle_mimicking_violation sets the counter back to 0 after a mute, so
\* the third such message is warned again: the claim does not hold of the
\* code.
C16_MimicEscalation ==
    [][(/\ ev'.op = "message"
        /\ ev'.acted = "mimic"
        /\ faults' = 0) =>
          /\ ev'.calls[1].call = "delete_message"
          /\ (handled = 0) =>
                /\ CallOk(ev'.calls, "send_mimic_warn")
                /\ ~HasCall(ev'.calls, "restrict_mute")
          /\ (handled >= 1) =>
                /\ CallOk(ev'.calls, "restrict_mute")
                /\ Muted(chat_member'[ev'.key])
    ]_vars


\* ------------------------------------------------------------------------
\* Properties of the edit handler
\* ------------------------------------------------------------------------
\* C17: an edit is acted on only as an obfuscated text (the two-strike
\* procedure) or for a banned word (the ban procedure).  No edit is warned,
\* muted or deleted for a flood, for capitals, for a link, for a forward or
\* for repeating the bot; no edit changes the shared warning counter, the
\* recent-message buffer or the mimicry counter; an edit that is neither
\* obfuscated nor holds a banned word calls nothing and changes nothing.
C17_EditReducedPipeline ==
    [][(ev'.op = "edit") =>
        LET k == ev'.key
            old == user_moderation_tracker[k]
            new == user_moderation_tracker'[k]
            words == ChatBanWords(k[1])
        IN /\ ev'.acted \in {"none", "zalgo", "word"}
           /\ new.warnings = old.warnings
           /\ new.last_messages = old.last_messages
           /\ new.mimic_warnings = old.mimic_warnings
           /\ \A c \in {"send_warn", "send_mute", "restrict_mute", "send_mimic_warn",
                         "send_mimic_mute", "send_moderation"} :
                 ~HasCall(ev'.calls, c)
           /\ (ev'.acted = "zalgo") =>
                 is_zalgo_text(ev'.msg.text, ZALGO_MIN_DIACRITICS,
                               ZALGO_RATIO_NUM, ZALGO_RATIO_DEN)
           /\ (ev'.acted = "word") =>
                 /\ first_match(words, normalize_text(ev'.msg.text)) # << >>
                 /\ HasCall(ev'.calls, "ban_chat_member")
           /\ (ev'.acted = "none") =>
                 /\ ev'.calls = << >>
                 /\ user_moderation_tracker' = user_moderation_tracker
                 /\ chat_member' = chat_member
    ]_vars

\* a member with one warning for capitals edits a message into capitals:
\* nothing happens
C17_Witness ==
    /\ ev.op = "edit"
    /\ ev.msg.text = T_caps
    /\ ev.acted = "none"
    /\ chat_member[Sender].status = "member"
    /\ Sender \notin whitelisted_users
    /\ Sender[2] \notin banned_users
    /\ user_moderation_tracker[Sender].warnings = 1


\* ------------------------------------------------------------------------
\* Properties of the global ban
\* ------------------------------------------------------------------------
\* C18: a message of a user with an active global ban, administrators
\* apart, is answered by the platform ban and by nothing else: the whitelist
\* is not asked, no content check runs, the counters stay.  A join of such a
\* user is answered by the platform ban before anything else: no bio is
\* fetched, no restriction applied, nothing posted, no job scheduled, and
\* greet_new_member ends there.  The restriction and the challenge of
\* greet_new_member never run for a user with an active global ban.
C18_GlobalBanEnforced ==
    [][LET k == ev'.key
           banned == k[2] \in banned_users
                     /\ (MODERATE_ADMINS
                         \/ chat_member[k].status \notin {"administrator", "creator"})
       IN /\ (ev'.op = "message" /\ banned) =>
                /\ ev'.acted = "global_ban"
                /\ ev'.stop
                /\ HasCall(ev'.calls, "ban_chat_member")
                /\ (CallOk(ev'.calls, "ban_chat_member") =>
                        chat_member'[k].status = "kicked")
                /\ user_moderation_tracker' = user_moderation_tracker
                /\ \A c \in {"delete_message", "send_warn", "send_mute", "restrict_mute"} :
                      ~HasCall(ev'.calls, c)
          /\ (ev'.op = "greet_screen" /\ banned) =>
                /\ ev'.calls[1].call = "ban_chat_member"
                /\ (CallOk(ev'.calls, "ban_chat_member") =>
                        chat_member'[k].status = "kicked")
                /\ bio_check_cache' = bio_check_cache
                /\ ~HasCall(ev'.calls, "restrict_chat_member")
                /\ handler' = NoHandler
                /\ jobs' = jobs
                /\ chat_messages' = chat_messages
          /\ (ev'.op \in {"greet_restrict", "greet_challenge"}) =>
                k[2] \notin banned_users
    ]_vars

\* the ban at the join failed on the platform; the user, who is on the
\* room's whitelist, writes in capitals and is banned at that message
C18_Witness ==
    /\ ev.op = "message"
    /\ ev.key = Joiner
    /\ ev.acted = "global_ban"
    /\ Joiner \in whitelisted_users
    /\ Joiner[2] \in banned_users
    /\ CallOk(ev.calls, "ban_chat_member")
    /\ chat_member[Joiner].status = "kicked"
    /\ faults = 1
    /\ ~PlatformFailed(ev.calls)
    /\ jobs = {}
    /\ chat_messages = {}


\* ------------------------------------------------------------------------
\* Properties of the order of screening and gate
\* ------------------------------------------------------------------------
\* the profile screening of a join returned True: the ban procedure posted
\* its notice, or the link branch restricted the user and asked every
\* administrator
ScreeningReported(calls) ==
    \/ CallOk(calls, "send_ban_notice")
    \/ /\ CallOk(calls, "restrict_chat_member")
       /\ \A i \in 1..Len(ADMIN_IDS) : CallOkN(calls, "send_moderation", ADMIN_IDS[i])

C20_MediaRestrictionLifted ==
    [][LET k == ev'.key
       IN (/\ ev'.op = "greet_challenge"
           /\ ~welcome_captcha_enabled[k[1]]
           /\ chat_member'[k].status = "restricted"
           /\ chat_member'[k].can_send_messages
           /\ ~chat_member'[k].can_send_photos
           /\ ~PlatformFailed(ev'.calls)) =>
             \E j \in jobs' : j.kind = "lift" /\ j.key = k
    ]_vars


\* ------------------------------------------------------------------------
\* Properties of the pending challenge
\* ------------------------------------------------------------------------
\* C21: when greet_new_member ends in a room with the captcha on, the joining
\* user being fully restricted, a kick job for that (room, user) is in the
\* queue, also when the challenge could not be posted.  greet_new_member
\* schedules the job after the send, inside the same try: the claim does not
\* hold of the code.
C21_KickJobPending ==
    [][LET k == ev'.key
       IN (/\ ev'.op = "greet_challenge"
           /\ welcome_captcha_enabled[k[1]]
           /\ FullyRestricted(chat_member'[k])) =>
             KickJobsOf(jobs', k) # {}
    ]_vars


\* ------------------------------------------------------------------------
\* Properties of the bio link policy
\* ------------------------------------------------------------------------
\* C22: when the join screening checks a bio that matches the link pattern
\* in a room with link deletion on, no platform ban is called and the user
\* is not banned, whether or not the bio also holds a banned word; no
\* platform call failing, the cached messages are purged, after that the
\* user is restricted in full, after that each administrator is sent the
\* request, and the screening reports the violation.
C22_BioLinkDefers ==
    [][LET k == ev'.key
           bio == bios[k[2]]
           checked == \/ bio_check_cache[k[2]] = NoCheck
                      \/ now - bio_check_cache[k[2]] >= BIO_CHECK_COOLDOWN
       IN (/\ ev'.op = "greet_screen"
           /\ chat_member[k].status \notin {"administrator", "creator"}
           /\ k[2] \notin banned_users
           /\ checked
           /\ delete_links_enabled[k[1]]
           /\ link_in_bio(MapLower(bio))) =>
             /\ ~HasCall(ev'.calls, "ban_chat_member")
             /\ ~HasCall(ev'.calls, "send_ban_notice")
             /\ chat_member'[k].status # "kicked"
             /\ banned_users' = banned_users
             /\ ~PlatformFailed(ev'.calls) =>
                  /\ \E i \in CallAt(ev'.calls, "delete_cached_messages") :
                     \E j \in CallAt(ev'.calls, "restrict_chat_member") :
                     \E l \in CallAt(ev'.calls, "send_moderation") :
                         /\ i < j
                         /\ j < l
                         /\ ev'.calls[i].n = user_message_id_cache[k]
                  /\ user_message_id_cache'[k] = 0
                  /\ FullyRestricted(chat_member'[k])
                  /\ \A a \in 1..Len(ADMIN_IDS) :
                        CallOkN(ev'.calls, "send_moderation", ADMIN_IDS[a])
                  /\ handler' = NoHandler
    ]_vars

\* the joiner's bio holds a link and the banned word, the room has the
\* captcha on: purged, restricted in full, the administrators asked, no ban
C22_Witness ==
    /\ ev.op = "greet_screen"
    /\ ev.key = Joiner
    /\ bios[Joiner[2]] = T_linkword
    /\ Contains(normalize_text(bios[Joiner[2]]), <<"x", " ", "y">>)
    /\ delete_links_enabled[Joiner[1]]
    /\ welcome_captcha_enabled[Joiner[1]]
    /\ CallOk(ev.calls, "delete_messages")
    /\ CallOk(ev.calls, "restrict_chat_member")
    /\ CallOk(ev.calls, "send_moderation")
    /\ ~HasCall(ev.calls, "ban_chat_member")
    /\ FullyRestricted(chat_member[Joiner])
    /\ user_message_id_cache[Joiner] = 0


\* ------------------------------------------------------------------------
\* Properties of the nickname rules
\* ------------------------------------------------------------------------
\* a name of the user holds a nickname word stored under chat_id
NameHit(user, chat_id) ==
    \E i \in 1..Len(names[user]) :
    \E w \in {NickWordOrder[1], NickWordOrder[2]} :
        /\ names[user][i] # << >>
        /\ <<chat_id, w>> \in ban_nickname_words
        /\ Contains(normalize_text(names[user][i]), w)

\* C23: when a join or its service message is screened, no platform call
\* failing, a user who is not an administrator and one of whose names holds
\* a nickname word stored under the room's id or under the global id 0 is
\* banned by the profile ban procedure.  get_ban_nickname_words selects the
\* rows of the room's id only: the claim does not hold of the code.
C23_GlobalNicknameRules ==
    [][LET k == ev'.key
       IN (/\ ev'.op \in {"greet_screen", "username_update"}
           /\ chat_member[k].status = "member"
           /\ (NameHit(k[2], k[1]) \/ NameHit(k[2], GLOBAL_CHAT_ID))
           /\ ~PlatformFailed(ev'.calls)) =>
             /\ CallOk(ev'.calls, "ban_chat_member")
             /\ chat_member'[k].status = "kicked"
    ]_vars


\* ------------------------------------------------------------------------
\* Properties of a join delivered twice
\* ------------------------------------------------------------------------
\* C27: of the two handlers a join reaches, greet_new_member by the
\* chat-member update and check_username_update by the service message, no
\* platform call failing, at most one calls the platform ban: a handler that
\* calls it finds the user not yet banned.  A user is banned only by these
\* handlers and joins once while banned, so a ban call for a user whom the
\* platform already reports as kicked is the second one for the same join.
\* Both handlers run the nickname check, neither looks at what the other
\* did: the claim does not hold of the code.
C27_OneBanPerJoin ==
    [][(/\ ev'.op \in {"greet_screen", "username_update"}
        /\ faults' = 0
        /\ HasCall(ev'.calls, "ban_chat_member")) =>
          /\ CountCalls(ev'.calls, "ban_chat_member") = 1
          /\ chat_member[ev'.key].status # "kicked"
    ]_vars


\* ------------------------------------------------------------------------
\* Properties of the global-ban registry
\* ------------------------------------------------------------------------
\* C24: a /ban of a user who is not an administrator and has no active
\* record stores the record and leaves it active, whatever bans and unbans
\* came before; an /unban of a user with an active record leaves it
\* inactive.  The table keeps one row per user and ban_user inserts a new
\* one: after an unban the insert fails and the record stays inactive, so
\* the claim does not hold of the code.
C24_RecordReactivatable ==
    [][LET u == ev'.key[2]
       IN /\ (/\ ev'.op = "admin_ban"
              /\ chat_member[ev'.key].status \notin {"administrator", "creator"}
              /\ u \notin banned_users) =>
                /\ CallOk(ev'.calls, "db_ban_user")
                /\ u \in banned_users'
          /\ (ev'.op = "admin_unban" /\ u \in banned_users) =>
                /\ CallOk(ev'.calls, "db_unban_user")
                /\ u \notin banned_users'
    ]_vars


\* ------------------------------------------------------------------------
\* Properties of the periodic rescan
\* ------------------------------------------------------------------------
\* the member is an administrator: of the bot (ADMIN_IDS) or of the room
IsAdministrator(chat_id, u) ==
    \/ InSeq(ADMIN_IDS, u)
    \/ u \in Users /\ chat_member[<<chat_id, u>>].status \in {"administrator", "creator"}

\* C25: a pass of scheduled_name_check over an active room in which the
\* bot holds the restrict right marks every member who was unchecked at its
\* start; an administrator is marked without screening; a member who was
\* marked before the pass is not selected by it.  The pass skips only the
\* administrators of the bot: an administrator of the room is screened, so
\* the claim does not hold of the code.
C25_RescanDrains ==
    [][(ev'.op = "rescan" /\ ev'.acted = "scanned") =>
          \A u \in KnownUsers :
             LET k == <<ev'.key[1], u>>
             IN /\ k \in profile_checks'
                /\ k \in profile_checks =>
                      ~CallOkN(ev'.calls, "mark_user_profile_checked", u)
                /\ (k \notin profile_checks /\ IsAdministrator(k[1], u)) =>
                      ~CallOkN(ev'.calls, "check_user_bio", u)
    ]_vars

\* the part of C25 that the code keeps: the marks, with the skip read as the
\* code has it (administrators of the bot only)
RescanMarksEveryone ==
    [][(ev'.op = "rescan" /\ ev'.acted = "scanned") =>
          \A u \in KnownUsers :
             LET k == <<ev'.key[1], u>>
             IN /\ k \in profile_checks'
                /\ k \in profile_checks =>
                      ~CallOkN(ev'.calls, "mark_user_profile_checked", u)
                /\ (k \notin profile_checks /\ InSeq(ADMIN_IDS, u)) =>
                      ~CallOkN(ev'.calls, "check_user_bio", u)
    ]_vars


\* ------------------------------------------------------------------------
\* Order of suppression and enforcement
\* ------------------------------------------------------------------------
\* calls that delete the triggering message or purge the cached messages
SuppressCalls == {"delete_message", "delete_cached_messages"}

\* calls that warn, mute or ban
EnforceCalls ==
    {"ban_chat_member", "restrict_mute", "send_warn", "send_zalgo_warn", "send_mimic_warn"}

\* C26: in every automated enforcement over a sent or edited message the
\* deletion of the message, or the purge of the user's cached messages, is
\* attempted before the warning, the mute or the ban is issued.  The link
\* block of check_user_message and the banned-word block of
\* handle_edited_message ban first, so the claim does not hold of the code.
C26_SuppressBeforeActing ==
    [][(ev'.op \in {"message", "edit"} /\ faults' = 0) =>
          \A j \in 1..Len(ev'.calls) :
             ev'.calls[j].call \in EnforceCalls =>
                \E i \in 1..(j - 1) : ev'.calls[i].call \in SuppressCalls
    ]_vars


\* ------------------------------------------------------------------------
\* Failures of the purge
\* ------------------------------------------------------------------------
\* the batch delete at position i of the calls failed in a path that purges
\* before it bans: no ban came before it, and the path is not the bio-link
\* moderation, which purges and then restricts
PurgeFailedBeforeBan(calls, i) ==
    /\ calls[i].call = "delete_messages"
    /\ ~calls[i].ok
    /\ \A j \in 1..(i - 1) : calls[j].call # "ban_chat_member"
    /\ \A j \in 1..Len(calls) : calls[j].call # "bot_can_restrict"

\* C28: when a batch delete of delete_cached_messages fails in a path that
\* purges before banning, the failure is absorbed and the platform ban is
\* still called.
C28_FailedPurgeStillBans ==
    [][\A i \in 1..Len(ev'.calls) :
          PurgeFailedBeforeBan(ev'.calls, i) =>
             \E j \in (i + 1)..Len(ev'.calls) : ev'.calls[j].call = "ban_chat_member"
    ]_vars

\* a profile ban went through although its purge failed
C28_Witness ==
    /\ ev.op \in {"greet_screen", "username_update"}
    /\ \E i \in 1..Len(ev.calls) : PurgeFailedBeforeBan(ev.calls, i)
    /\ CallOk(ev.calls, "ban_chat_member")
    /\ chat_member[ev.key].status = "kicked"


\* ------------------------------------------------------------------------
\* Properties of the rule proposals
\* ------------------------------------------------------------------------
\* the rule lists a proposal can write
rule_lists == <<ban_nickname_words, rule_rows>>

\* the press is invalid: no proposal is stored under the request id, or the
\* presser is not the proposing administrator
InvalidPress(request_id, from_user) ==
    \/ ban_proposals[request_id] = NoProposal
    \/ ban_proposals[request_id].admin_id # from_user

\* C29, first half: an invalid press of a rule-proposal button changes no
\* rule list and no stored proposal, and is answered with the notice unless
\* a platform call of the press failed.
C29_InvalidPressMutatesNothing ==
    [][(ev'.op = "auto_rule" /\ InvalidPress(ev'.key[1], ev'.key[2])) =>
          /\ UNCHANGED <<ban_proposals, rule_lists>>
          /\ ~PlatformFailed(ev'.calls) => CallOkN(ev'.calls, "edit_message_text", 0)
    ]_vars

\* C29: an invalid press mutates nothing, and a proposal that was acted on
\* (a rule was written from it) is removed, so that it is applied at most
\* once.  The edit of the message that follows the write is not guarded:
\* when it raises, the proposal stays stored and its other buttons still
\* apply, so the claim does not hold of the code.
C29_ProposalAppliedOnce ==
    [][ev'.op = "auto_rule" =>
          /\ InvalidPress(ev'.key[1], ev'.key[2]) =>
                UNCHANGED <<ban_proposals, rule_lists>>
          /\ rule_lists' # rule_lists => ban_proposals'[ev'.key[1]] = NoProposal
    ]_vars


\* ------------------------------------------------------------------------
\* Properties of the avatar check
\* ------------------------------------------------------------------------
\* the user's photo cannot be decoded and its file id is not banned (no
\* hash of such a file is ever cached)
Undecodable(user) ==
    /\ profile_photos[user] # NoPhoto
    /\ ~profile_photos[user].image.decodable
    /\ profile_photos[user].file_unique_id \notin BannedAvatarIds

\* C30: when the avatar cannot be decoded or hashed and its file id is not
\* banned, check_user_avatar reports no violation and deletes, purges, bans
\* and proposes nothing.
C30_DecodeErrorFailsClosed ==
    [][(ev'.op = "avatar_check" /\ Undecodable(ev'.key[2])) =>
          /\ ev'.acted = "none"
          /\ ~ev'.exc
          /\ \A c \in {"delete_message", "delete_cached_messages", "ban_chat_member",
                       "send_ban_notice", "send_proposal"} : ~HasCall(ev'.calls, c)
          /\ UNCHANGED <<chat_member, banned_users, user_message_id_cache>>
    ]_vars

\* an image that could not be decoded was downloaded and the check ended
\* without a ban
C30_Witness ==
    /\ ev.op = "avatar_check"
    /\ Undecodable(ev.key[2])
    /\ CallOk(ev.calls, "download")
    /\ ev.acted = "none"
    /\ chat_member[ev.key].status = "member"


\* ------------------------------------------------------------------------
\* Properties of normalize_text
\* ------------------------------------------------------------------------
\* C31: normalize_text is idempotent; texts that differ only in letter case
\* and in the length or kind of whitespace runs, leading and trailing ones
\* included, normalize to the same text; the empty text normalizes to the
\* empty text.
C31_NormalizeIdempotent ==
    [][/\ normalize_text(normalize_text(repeated')) = normalize_text(repeated')
       /\ ev'.op = "vary" => normalize_text(repeated') = normalize_text(repeated)
       /\ ev'.op = "normalize" => normalize_text(repeated') = repeated'
       /\ repeated' = << >> => normalize_text(repeated') = << >>
    ]_vars

\* a text with an upper-case letter and a whitespace run was varied, and
\* its normal form differs from it
C31_Witness ==
    /\ ev.op = "vary"
    /\ \E i \in 1..Len(repeated) : repeated[i] \in UpperChars
    /\ \E i \in 1..(Len(repeated) - 1) :
          repeated[i] \in SpaceChars /\ repeated[i + 1] \in SpaceChars
    /\ normalize_text(repeated) # repeated
    /\ normalize_text(repeated) # << >>


\* ------------------------------------------------------------------------
\* Properties of is_zalgo_text
\* ------------------------------------------------------------------------
\* the combining marks of a text after decomposition: its marks and one for
\* each precomposed letter
MarksOf(text) == CountIn(text, MarkChars) + CountIn(text, ComposedChars)
\* its base characters after decomposition
BasesOf(text) == Len(text) - CountIn(text, MarkChars)

InCooldown(cache, user, window) ==
    cache[user] # NoCheck /\ now - cache[user] < window

\* the step touched nothing but the event counters
NothingEnforced ==
    /\ ev'.calls = << >>
    /\ ev'.acted = "none"
    /\ chat_member' = chat_member
    /\ banned_users' = banned_users
    /\ user_message_id_cache' = user_message_id_cache
    /\ user_avatar_phash_cache' = user_avatar_phash_cache

\* C33: a check of the avatar (of the bio) less than the cooldown window
\* after the last one for the same user returns not violated without a
\* platform call and without touching the stored time; a check after the
\* window fetches again and stores the new time.
C33_CooldownGate ==
    [][/\ ev'.op = "avatar_check" =>
             LET user == ev'.key[2]
             IN IF InCooldown(avatar_check_cache, user, AVATAR_CHECK_COOLDOWN)
                THEN NothingEnforced /\ avatar_check_cache' = avatar_check_cache
                ELSE /\ ev'.calls # << >>
                     /\ ev'.calls[1].call = "get_user_profile_photos"
                     /\ avatar_check_cache' = [avatar_check_cache EXCEPT ![user] = now]
       /\ ev'.op = "bio_check" =>
             LET user == ev'.key[2]
             IN IF InCooldown(bio_check_cache, user, BIO_CHECK_COOLDOWN)
                THEN NothingEnforced /\ bio_check_cache' = bio_check_cache
                ELSE /\ ev'.calls # << >>
                     /\ ev'.calls[1].call = "get_chat"
                     /\ bio_check_cache' = [bio_check_cache EXCEPT ![user] = now]
    ]_vars

\* three bio checks of one user and nothing else: the first one fetched,
\* one was skipped inside the window, and the one after the window fetched
\* again and stored its time
C33_Witness ==
    /\ ev.op = "bio_check"
    /\ ev.calls # << >>
    /\ handled = MaxAvatarChecks
    /\ ticks = 2
    /\ bio_check_cache[ev.key[2]] = now
    /\ now >= BIO_CHECK_COOLDOWN
    /\ \A u \in Users : avatar_check_cache[u] = NoCheck
    /\ \A u \in Users \ {ev.key[2]} : bio_check_cache[u] = NoCheck


SpamEvictsOldest ==
    [][(/\ Len(tracker_order) > MAX_HISTORY_USERS
        /\ ev'.op = "message"
        /\ ev'.msg.text = T_hi
        /\ ~InSeq(tracker_order, ev'.key))
          => tracker_order' = Append(Tail(tracker_order), ev'.key)
    ]_vars

\* C35: after any sequence of message, edit and mimicry events the tracker
\* never holds more than MAX_HISTORY_USERS + 1 entries.
C35_TrackerBounded == Len(tracker_order) <= MAX_HISTORY_USERS + 1


\* C36: after a call of _issue_warning_and_mute_if_needed has completed, the
\* warning counter of that member is between 0 and MAX_WARNINGS - 1, also
\* when the mute fails or the bot may not restrict.
C36_WarningRange ==
    [][HasCall(ev'.calls, "log_WarningIssued") =>
          user_moderation_tracker'[ev'.key].warnings \in 0..(MAX_WARNINGS - 1)
    ]_vars

\* the same range for the calls during which the mute was not refused
WarningRangeUnlessRefused ==
    [][(HasCall(ev'.calls, "log_WarningIssued") /\ ~MuteRefused(ev'.calls)
        /\ user_moderation_tracker[ev'.key].warnings < MAX_WARNINGS) =>
          user_moderation_tracker'[ev'.key].warnings \in 0..(MAX_WARNINGS - 1)
    ]_vars


\* ------------------------------------------------------------------------
\* Properties of the lifting of restrictions
\* ------------------------------------------------------------------------
\* the member is restricted by the join gate and the captcha is pending: the
\* kick job of the member is scheduled or running
AwaitingCaptcha(k) ==
    /\ chat_member[k].status = "restricted"
    /\ ~chat_member[k].can_send_messages
    /\ \/ \E j \in jobs : j.kind = "kick" /\ j.key = k
       \/ job.kind = "kick" /\ job.key = k

\* C37: verify_member_callback lifts the restriction of a member only if
\* that member is awaiting the captcha in that room.
C37_VerifyLiftsCaptchaOnly ==
    [][(/\ ev'.op = "verify_restrict"
        /\ chat_member[ev'.key].status = "restricted"
        /\ ~chat_member[ev'.key].can_send_messages
        /\ chat_member'[ev'.key].can_send_messages)
          => AwaitingCaptcha(ev'.key)
    ]_vars


\* C38: a chat-member update from restricted to member that follows a lift
\* of a restriction by the bot does not start the join gate: a member whose
\* restriction the verification lifted is not restricted or challenged
\* again, and gets no new job, until the platform changes the member.
C38_LiftIsNoJoin ==
    [][/\ ev'.op = "greet_screen" => NextUpdate.old \in {"left", "kicked"}
       /\ ev'.op \in {"greet_restrict", "greet_challenge"} => ev'.key \notin verified
    ]_vars


\* C39: lift_media_restriction_job takes a restriction off a member only if
\* the restriction in force is the media restriction of the join.
C39_LiftEndsMediaRestrictionOnly ==
    [][(ev'.op = "lift_act" /\ chat_member'[ev'.key] # chat_member[ev'.key])
          => chat_member[ev'.key] = Restricted(PERMS_MEDIA_RESTRICT)
    ]_vars

\* the job that reads a member under the media restriction, and finds it
\* still in force when it acts, lifts it
LiftEndsMediaRestriction ==
    [][(/\ ev'.op = "lift_act"
        /\ job.member = Restricted(PERMS_MEDIA_RESTRICT)
        /\ chat_member[ev'.key] = job.member
        /\ faults' = faults)
          => chat_member'[ev'.key] \in LiftOutcomes
    ]_vars


\* ------------------------------------------------------------------------
\* Properties of the marks of the rescan
\* ------------------------------------------------------------------------
\* during the event the bio of the user was asked for: the call of
\* check_user_bio for the user is followed by get_chat
BioFetched(calls, u) ==
    \E i \in 1..Len(calls) :
        /\ calls[i].call = "check_user_bio"
        /\ calls[i].n = u
        /\ i < Len(calls)
        /\ calls[i + 1].call = "get_chat"

\* C40: whenever a pass of the rescan marks a member who is no
\* administrator as checked, the bio of that member was fetched during the
\* pass; no mark is written for a member whose bio check the cooldown
\* skipped.
C40_CheckedMeansScreened ==
    [][ev'.op = "rescan" =>
          \A u \in Users :
             (/\ CallOkN(ev'.calls, "mark_user_profile_checked", u)
              /\ ~IsAdministrator(ev'.key[1], u))
                => BioFetched(ev'.calls, u)
    ]_vars

\* outside the cooldown window the member who is marked was fetched
MarkedMeansFetchedOutsideCooldown ==
    [][ev'.op = "rescan" =>
          \A u \in Users :
             (/\ CallOkN(ev'.calls, "mark_user_profile_checked", u)
              /\ ~InSeq(ADMIN_IDS, u)
              /\ ~InCooldown(bio_check_cache, u, BIO_CHECK_COOLDOWN))
                => BioFetched(ev'.calls, u)
    ]_vars

=============================================================================
